---- MODULE Spec2Model ----
(***************************************************************************)
(* A model of the wildwood decision-tree core:                             *)
(*   - the classification splitting criterion of wildwood/_criterion.py    *)
(*     (init, reset, reverse_reset, update), and                           *)
(*   - the node arena of wildwood/_tree.py (resize_tree, add_node_tree)    *)
(*     with the root-to-leaf walk find_leaf and the predictions that walk  *)
(*     back from the leaf to the root.                                     *)
(* Positions and counters are Python / signed machine integers (SIZE_t of  *)
(* the Cython original quoted in the source is npy_intp); weights are      *)
(* integer-valued doubles, for which the floating-point sums are exact.    *)
(***************************************************************************)
EXTENDS Integers, Sequences, FiniteSets, TLC

VARIABLES
    criterion,      \* the ClassificationCriterion object (a record of its fields)
    initialised,    \* TRUE once classification_criterion_init has run on it
    last_op,        \* the last criterion call: <<name, position, branch taken>>
    fresh,          \* TRUE while only updates to non-decreasing positions were
                    \* called since the last init or reset
    n_ops,          \* number of criterion calls since the last init
    evals,          \* the impurities evaluated since the last init, per cursor
                    \* position
    tree,           \* the tree object: node_count, capacity and the nodes array
    calls,          \* the add_node_tree calls made so far, with their results
    f_pc,           \* find_leaf: "idle", "loop" (in the while loop), "done", "fault"
    f_xi,           \* find_leaf: the features vector xi
    idx_leaf,       \* find_leaf: the local idx_leaf
    tree_type,      \* "classifier" (_TreeClassifier) or "regressor" (_TreeRegressor)
    y_pred,         \* tree.y_pred, by node: a row of n_classes values for a
                    \* classifier, a row holding the one value for a regressor
    loss_valid,     \* the field loss_valid of the nodes, by node
    log_weight_tree,\* the field log_weight_tree of the nodes, by node
    p_pc,           \* prediction of one row: "idle", "loop", "done", "fault"
    p_fn,           \* prediction: the function that is running
    p_xi,           \* prediction: the row X[i]
    aggregation,    \* prediction: the argument aggregation
    step,           \* prediction: the argument step
    idx_current,    \* prediction: the local idx_current
    pred_i,         \* prediction: the local pred_i (weighted_depth in
                    \* tree_regressor_weighted_depth), as a row
    visited,        \* the values idx_current has taken, the leaf first
    X,              \* a batch call: the argument X, a sequence of rows
    p_i,            \* a batch call: the loop variable i
    out,            \* a batch call: the array out, by row
    out_before,     \* the array a former call with the same arguments returned
                    \* (<<>> before a second call is made)
    heap,           \* two builds: the objects the constructors have made, by
                    \* address: the trees and the criterion objects
    builds,         \* two builds: per build, the addresses of its tree and of
                    \* its criterion, and the calls it has made
    seed            \* the seed of numba's random generator (one per process)

criterionVars == <<criterion, initialised, last_op, fresh, n_ops, evals>>
treeVars == <<tree, calls>>
findVars == <<f_pc, f_xi, idx_leaf>>
statVars == <<tree_type, y_pred, loss_valid, log_weight_tree>>
batchVars == <<X, p_i, out, out_before>>
forestVars == <<heap, builds, seed>>
predictVars == <<p_pc, p_fn, p_xi, aggregation, step, idx_current, pred_i, visited,
                 X, p_i, out, out_before, heap, builds, seed>>
vars == <<criterion, initialised, last_op, fresh, n_ops, evals, tree, calls, f_pc, f_xi, idx_leaf,
          tree_type, y_pred, loss_valid, log_weight_tree,
          p_pc, p_fn, p_xi, aggregation, step, idx_current, pred_i, visited,
          X, p_i, out, out_before, heap, builds, seed>>

---------------------------------------------------------------------------
(* Bounds of the model *)

\* number of rows of y (samples of the training set)
MaxSamples == 3

\* number of reset / reverse_reset / update calls explored after one init
MaxOps == 3

\* number of nodes appended to one tree by arbitrary callers
MaxNodes == 4

\* number of nodes appended to one tree by the builder
MaxGrown == 5

\* depth of the deepest leaf of the fitted trees given to the predictions
MaxDepth == 2

\* number of rows of the matrix X given to a batch call
MaxRows == 2

\* number of calls one build makes on its tree and its criterion
MaxCalls == 2

\* number of samples of the nodes whose split positions are ranked
MaxRanked == 5

\* number of bits of the significand of a floating-point number
MantissaBits == 8

---------------------------------------------------------------------------
(* The criterion object: ClassificationCriterion(n_outputs, n_classes) *)

\* constructor argument n_outputs
n_outputs == 2

\* np.max(n_classes) for the constructor argument n_classes = [2, 2]
max_n_classes == 2

Outputs == 0 .. (n_outputs - 1)
Classes == 0 .. (max_n_classes - 1)
SampleIds == 0 .. (MaxSamples - 1)

\* a (n_outputs, max_n_classes) array filled with the value v
Filled(v) == [k \in Outputs |-> [c \in Classes |-> v]]

\* an array of the shape of a, filled with 0
ZerosLike(a) == [k \in DOMAIN a |-> [c \in DOMAIN a[k] |-> 0]]

\* elementwise a - b of two (n_outputs, max_n_classes) arrays
ArraySub(a, b) == [k \in DOMAIN a |-> [c \in DOMAIN a[k] |-> a[k][c] - b[k][c]]]

\* sample_weight.size
Size(a) == Cardinality(DOMAIN a)

\* a ReadWeight that never reads sample_weight
ReadWeight_unit(cr, i, w) == w

\* a ReadWeight whose default weight is 0
ReadWeight_zero(cr, i, w) ==
    IF Size(cr.sample_weight) > 0 THEN cr.sample_weight[i] ELSE 0

\* the weight read for sample i: sample_weight[i] when weights were given,
\* the running value w (initially 1.0) otherwise
ReadWeight(cr, i, w) == IF Size(cr.sample_weight) > 0 THEN cr.sample_weight[i] ELSE w

\* for k in range(n_outputs): sum[k, y[i, k]] += w
RECURSIVE AddLabels(_, _, _, _, _)
AddLabels(sum, y, i, w, k) ==
    IF k >= Size(sum) THEN sum
    ELSE AddLabels([sum EXCEPT ![k][y[i][k]] = @ + w], y, i, w, k + 1)

\* for k in range(n_outputs): sum[k, y[i, k]] -= w
RECURSIVE SubLabels(_, _, _, _, _)
SubLabels(sum, y, i, w, k) ==
    IF k >= Size(sum) THEN sum
    ELSE SubLabels([sum EXCEPT ![k][y[i][k]] = @ - w], y, i, w, k + 1)

criterion_reset(cr) ==
    [cr EXCEPT !.pos = cr.start,
               !.weighted_n_left = 0,
               !.weighted_n_right = cr.weighted_n_node_samples,
               !.sum_left = ZerosLike(cr.sum_left),
               !.sum_right = cr.sum_total]

\* a criterion_reverse_reset that leaves the right sums as they are
criterion_reverse_reset_stale(cr) ==
    [cr EXCEPT !.pos = cr.end,
               !.weighted_n_left = cr.weighted_n_node_samples,
               !.weighted_n_right = 0,
               !.sum_left = cr.sum_total]

criterion_reverse_reset(cr) ==
    [cr EXCEPT !.pos = cr.end,
               !.weighted_n_left = cr.weighted_n_node_samples,
               !.weighted_n_right = 0,
               !.sum_right = ZerosLike(cr.sum_right),
               !.sum_left = cr.sum_total]

\* the scan "for p in range(start, end)" of classification_criterion_init,
\* from position p on, carrying the local w
RECURSIVE InitScan(_, _, _)
InitScan(cr, p, w) ==
    IF p >= cr.end THEN cr
    ELSE LET i == cr.samples[p]
             w1 == ReadWeight(cr, i, w)
         IN InitScan([cr EXCEPT !.sum_total = AddLabels(@, cr.y, i, w1, 0),
                                !.weighted_n_node_samples = @ + w1],
                     p + 1, w1)

\* a classification_criterion_init that accumulates onto the former sum_total
classification_criterion_init_no_zero(cr, y, sample_weight, weighted_n_samples, samples, start, end) ==
    LET c0 == [cr EXCEPT !.y = y,
                         !.sample_weight = sample_weight,
                         !.samples = samples,
                         !.start = start,
                         !.end = end,
                         !.n_node_samples = end - start,
                         !.weighted_n_samples = weighted_n_samples,
                         !.weighted_n_node_samples = 0]
    IN criterion_reset(InitScan(c0, start, 1))

\* a classification_criterion_init without the final criterion_reset
classification_criterion_init_no_reset(cr, y, sample_weight, weighted_n_samples, samples, start, end) ==
    LET c0 == [cr EXCEPT !.y = y,
                         !.sample_weight = sample_weight,
                         !.samples = samples,
                         !.start = start,
                         !.end = end,
                         !.n_node_samples = end - start,
                         !.weighted_n_samples = weighted_n_samples,
                         !.weighted_n_node_samples = 0,
                         !.sum_total = ZerosLike(cr.sum_total)]
    IN InitScan(c0, start, 1)

classification_criterion_init(cr, y, sample_weight, weighted_n_samples, samples, start, end) ==
    LET c0 == [cr EXCEPT !.y = y,
                         !.sample_weight = sample_weight,
                         !.samples = samples,
                         !.start = start,
                         !.end = end,
                         !.n_node_samples = end - start,
                         !.weighted_n_samples = weighted_n_samples,
                         !.weighted_n_node_samples = 0,
                         !.sum_total = ZerosLike(cr.sum_total)]
    IN criterion_reset(InitScan(c0, start, 1))

\* "for p in range(pos, new_pos)": add the samples to the left statistics
RECURSIVE UpdateForward(_, _, _, _)
UpdateForward(cr, p, new_pos, w) ==
    IF p >= new_pos THEN cr
    ELSE LET i == cr.samples[p]
             w1 == ReadWeight(cr, i, w)
         IN UpdateForward([cr EXCEPT !.sum_left = AddLabels(@, cr.y, i, w1, 0),
                                     !.weighted_n_left = @ + w1],
                          p + 1, new_pos, w1)

\* an UpdateReverse that stops one sample early: range(end - 1, new_pos, -1)
RECURSIVE UpdateReverse_short(_, _, _, _)
UpdateReverse_short(cr, p, new_pos, w) ==
    IF p <= new_pos THEN cr
    ELSE LET i == cr.samples[p]
             w1 == IF Size(cr.sample_weight) > 0 THEN cr.sample_weight[i] ELSE w
         IN UpdateReverse_short([cr EXCEPT !.sum_left = SubLabels(@, cr.y, i, w1, 0),
                                           !.weighted_n_left = @ - w1],
                                p - 1, new_pos, w1)

\* "for p in range(end - 1, new_pos - 1, -1)": remove the samples from the
\* left statistics
RECURSIVE UpdateReverse(_, _, _, _)
UpdateReverse(cr, p, new_pos, w) ==
    IF p <= new_pos - 1 THEN cr
    ELSE LET i == cr.samples[p]
             w1 == ReadWeight(cr, i, w)
         IN UpdateReverse([cr EXCEPT !.sum_left = SubLabels(@, cr.y, i, w1, 0),
                                     !.weighted_n_left = @ - w1],
                          p - 1, new_pos, w1)

\* a branch test that sends a tie to the reverse branch
TakesForward_strict(cr, new_pos) == (new_pos - cr.pos) < (cr.end - new_pos)

\* TRUE when criterion_update(new_pos) takes the forward (add) branch
TakesForward(cr, new_pos) == (new_pos - cr.pos) <= (cr.end - new_pos)

\* a criterion_update without the final "update right part statistics"
criterion_update_stale_right(cr, new_pos) ==
    LET c1 == IF (new_pos - cr.pos) <= (cr.end - new_pos)
              THEN UpdateForward(cr, cr.pos, new_pos, 1)
              ELSE UpdateReverse(criterion_reverse_reset(cr), cr.end - 1, new_pos, 1)
    IN [c1 EXCEPT !.pos = new_pos]

criterion_update(cr, new_pos) ==
    LET c1 == IF TakesForward(cr, new_pos)
              THEN UpdateForward(cr, cr.pos, new_pos, 1)
              ELSE UpdateReverse(criterion_reverse_reset(cr), cr.end - 1, new_pos, 1)
    IN [c1 EXCEPT !.weighted_n_right = c1.weighted_n_node_samples - c1.weighted_n_left,
                  !.sum_right = ArraySub(c1.sum_total, c1.sum_left),
                  !.pos = new_pos]

---------------------------------------------------------------------------
(* The node arena: _TreeClassifier / _TreeRegressor *)

TREE_LEAF == -1
TREE_UNDEFINED == -2

\* the content of a field of the nodes array that no statement has written
\* yet: the array comes from np.empty / resize without zeros, so the field
\* holds whatever the memory held
UNINIT == TREE_UNDEFINED - 1

\* the values an index-typed field may turn out to hold when it is read
FieldValues(v) == IF v = UNINIT THEN UNINIT .. MaxNodes ELSE {v}

\* the argument capacity=None of resize_tree (capacities are unsigned)
None == -1

\* largest value of the uint8 field bin_threshold and of a bin code
MaxBinCode == 255

\* _TreeClassifier.__init__ / _TreeRegressor.__init__
FreshTree == [node_count |-> 0, capacity |-> 0, nodes |-> <<>>]

\* tree.nodes.size: resize_tree_ reallocates tree.nodes to `capacity` records
NodesSize(t) == t.capacity

\* a resize_tree_ that hands out new arrays without the former records
resize_tree_fresh(t, capacity) ==
    [t EXCEPT !.capacity = capacity,
              !.nodes = [i \in DOMAIN t.nodes |->
                            [f \in DOMAIN t.nodes[i] |-> UNINIT]]]

\* resize_tree_ : the records already written are kept, the new ones are
\* left unwritten
resize_tree_(t, capacity) == [t EXCEPT !.capacity = capacity]

\* a resize_tree that gives an empty tree four slots
resize_tree_four(t, capacity) ==
    IF capacity = None
    THEN (IF t.capacity = 0 THEN resize_tree_(t, 4)
          ELSE resize_tree_(t, 2 * t.capacity))
    ELSE (IF capacity <= t.capacity /\ NodesSize(t) > 0 THEN t
          ELSE resize_tree_(t, capacity))

\* a resize_tree that resizes whatever the current capacity is
resize_tree_unguarded(t, capacity) ==
    IF capacity = None
    THEN (IF t.capacity = 0 THEN resize_tree_(t, 3)
          ELSE resize_tree_(t, 2 * t.capacity))
    ELSE resize_tree_(t, capacity)

resize_tree(t, capacity) ==
    IF capacity = None
    THEN (IF t.capacity = 0 THEN resize_tree_(t, 3)
          ELSE resize_tree_(t, 2 * t.capacity))
    ELSE (IF capacity <= t.capacity /\ NodesSize(t) > 0 THEN t
          ELSE resize_tree_(t, capacity))

\* a NewNode that stores the node's own index as its parent
NewNode_own(node_idx, parent, depth, is_leaf) ==
    [node_id |-> node_idx, parent |-> node_idx, depth |-> depth,
     is_leaf |-> is_leaf,
     left_child |-> UNINIT, right_child |-> UNINIT,
     feature |-> UNINIT, threshold |-> UNINIT, bin_threshold |-> UNINIT]

\* the record nodes[node_idx] after the unconditional field writes
NewNode(node_idx, parent, depth, is_leaf) ==
    [node_id |-> node_idx, parent |-> parent, depth |-> depth,
     is_leaf |-> is_leaf,
     left_child |-> UNINIT, right_child |-> UNINIT,
     feature |-> UNINIT, threshold |-> UNINIT, bin_threshold |-> UNINIT]

\* a LinkParent that always writes the parent's left slot
LinkParent_left(nodes, parent, is_left, node_idx) ==
    IF parent # TREE_UNDEFINED
    THEN [nodes EXCEPT ![parent].left_child = node_idx]
    ELSE nodes

\* a LinkParent that writes the new index into both slots of the parent
LinkParent_both(nodes, parent, is_left, node_idx) ==
    IF parent # TREE_UNDEFINED
    THEN [nodes EXCEPT ![parent].left_child = node_idx,
                       ![parent].right_child = node_idx]
    ELSE nodes

\* a LinkParent that writes the index of the next node
LinkParent_next(nodes, parent, is_left, node_idx) ==
    IF parent # TREE_UNDEFINED
    THEN (IF is_left THEN [nodes EXCEPT ![parent].left_child = node_idx + 1]
          ELSE [nodes EXCEPT ![parent].right_child = node_idx + 1])
    ELSE nodes

\* "if parent != TREE_UNDEFINED": the new index goes into the parent's slot
LinkParent(nodes, parent, is_left, node_idx) ==
    IF parent # TREE_UNDEFINED
    THEN (IF is_left THEN [nodes EXCEPT ![parent].left_child = node_idx]
          ELSE [nodes EXCEPT ![parent].right_child = node_idx])
    ELSE nodes

\* a SplitFields that stores the arguments for a leaf too
SplitFields_args(nodes, node_idx, is_leaf, feature, threshold, bin_threshold) ==
    [nodes EXCEPT ![node_idx].feature = feature,
                  ![node_idx].threshold = threshold,
                  ![node_idx].bin_threshold = bin_threshold]

\* a SplitFields that stores the sentinel of a leaf's bin_threshold as it is
SplitFields_unwrapped(nodes, node_idx, is_leaf, feature, threshold, bin_threshold) ==
    IF is_leaf
    THEN [nodes EXCEPT ![node_idx].left_child = TREE_LEAF,
                       ![node_idx].right_child = TREE_LEAF,
                       ![node_idx].feature = TREE_UNDEFINED,
                       ![node_idx].threshold = TREE_UNDEFINED,
                       ![node_idx].bin_threshold = TREE_UNDEFINED]
    ELSE [nodes EXCEPT ![node_idx].feature = feature,
                       ![node_idx].threshold = threshold,
                       ![node_idx].bin_threshold = bin_threshold]

\* "if is_leaf: ... else: ...": sentinels for a leaf, the arguments otherwise;
\* bin_threshold is an unsigned 8-bit field
SplitFields(nodes, node_idx, is_leaf, feature, threshold, bin_threshold) ==
    IF is_leaf
    THEN [nodes EXCEPT ![node_idx].left_child = TREE_LEAF,
                       ![node_idx].right_child = TREE_LEAF,
                       ![node_idx].feature = TREE_UNDEFINED,
                       ![node_idx].threshold = TREE_UNDEFINED,
                       ![node_idx].bin_threshold = TREE_UNDEFINED % (MaxBinCode + 1)]
    ELSE [nodes EXCEPT ![node_idx].feature = feature,
                       ![node_idx].threshold = threshold,
                       ![node_idx].bin_threshold = bin_threshold]

\* an add_node_tree that never grows the arrays
add_node_tree_no_growth(t, parent, depth, is_left, is_leaf, feature, threshold, bin_threshold) ==
    LET node_idx == t.node_count
        nodes1 == [i \in 0 .. node_idx |->
                      IF i = node_idx THEN NewNode(node_idx, parent, depth, is_leaf)
                      ELSE t.nodes[i]]
        nodes2 == LinkParent(nodes1, parent, is_left, node_idx)
        nodes3 == SplitFields(nodes2, node_idx, is_leaf, feature, threshold, bin_threshold)
    IN [t EXCEPT !.nodes = nodes3, !.node_count = @ + 1]

\* add_node_tree: the tree it leaves (it returns the former node_count)
add_node_tree(t, parent, depth, is_left, is_leaf, feature, threshold, bin_threshold) ==
    LET node_idx == t.node_count
        t1 == IF node_idx >= t.capacity THEN resize_tree(t, None) ELSE t
        nodes1 == [i \in 0 .. node_idx |->
                      IF i = node_idx THEN NewNode(node_idx, parent, depth, is_leaf)
                      ELSE t1.nodes[i]]
        nodes2 == LinkParent(nodes1, parent, is_left, node_idx)
        nodes3 == SplitFields(nodes2, node_idx, is_leaf, feature, threshold, bin_threshold)
    IN [t1 EXCEPT !.nodes = nodes3, !.node_count = @ + 1]

\* the indices of the nodes appended so far
NodeIds(t) == 0 .. (t.node_count - 1)

---------------------------------------------------------------------------
(* find_leaf *)

\* a ChildOf that compares with < instead of <=
ChildOf_strict(node, xi) ==
    IF xi[node.feature] < node.bin_threshold
    THEN node.left_child ELSE node.right_child

\* a ChildOf that goes back to the parent on the right side
ChildOf_back(node, xi) ==
    IF xi[node.feature] <= node.bin_threshold
    THEN node.left_child ELSE node.node_id

\* the body of the while loop: the child the walk moves to
ChildOf(node, xi) ==
    IF xi[node.feature] <= node.bin_threshold
    THEN node.left_child ELSE node.right_child

---------------------------------------------------------------------------
(* Floating-point values: predictions, losses, weights, impurities         *)
(* A value is <<numerator, denominator>> in lowest terms, or NaN. Losses and *)
(* log-weights of the tree are measured in units of ln 2, so that exp of    *)
(* them is a power of two; the rounding of the tree's 32-bit values is not  *)
(* modelled.                                                                *)

\* np.nan
NaN == <<0, 0>>

IsNaN(x) == x[2] = 0

Abs(n) == IF n < 0 THEN 0 - n ELSE n

Sign(n) == IF n < 0 THEN -1 ELSE IF n > 0 THEN 1 ELSE 0

RECURSIVE GCD(_, _)
GCD(a, b) == IF b = 0 THEN a ELSE GCD(b, a % b)

\* the value in lowest terms
Reduced(x) ==
    IF x[2] = 0 THEN x
    ELSE LET g == GCD(Abs(x[1]), x[2]) IN <<x[1] \div g, x[2] \div g>>

\* float32(n) for an integer n
Float(n) == <<n, 1>>

\* x + y, x - y, x * y, -x: NaN if an operand is NaN
Add(x, y) ==
    IF IsNaN(x) \/ IsNaN(y) THEN NaN
    ELSE Reduced(<<x[1] * y[2] + y[1] * x[2], x[2] * y[2]>>)

Neg(x) == IF IsNaN(x) THEN NaN ELSE <<0 - x[1], x[2]>>

Sub(x, y) == Add(x, Neg(y))

Mul(x, y) ==
    IF IsNaN(x) \/ IsNaN(y) THEN NaN
    ELSE Reduced(<<x[1] * y[1], x[2] * y[2]>>)

RECURSIVE Pow2(_)
Pow2(k) == IF k <= 0 THEN 1 ELSE 2 * Pow2(k - 1)

\* math.exp(x) for x a whole number of ln 2 (or NaN)
exp(x) ==
    IF IsNaN(x) THEN NaN
    ELSE IF x[1] >= 0 THEN <<Pow2(x[1]), 1>> ELSE <<1, Pow2(0 - x[1])>>

\* x / y for a y that is neither NaN nor zero
Div(x, y) == Reduced(<<x[1] * y[2] * Sign(y[1]), x[2] * Abs(y[1])>>)

\* x < y for two values that are not NaN
Less(x, y) == x[1] * y[2] < y[1] * x[2]

\* the smallest significand of a normalised floating-point number
SmallestSignificand == Pow2(MantissaBits - 1)

\* the scaling of n / d by a power of two that brings it into
\* [2^(MantissaBits - 1), 2^MantissaBits): <<n, d, e>> with the value
\* (n / d) * 2^e
RECURSIVE Normalised(_, _, _)
Normalised(n, d, e) ==
    IF n < SmallestSignificand * d THEN Normalised(2 * n, d, e - 1)
    ELSE IF n >= 2 * SmallestSignificand * d THEN Normalised(n, 2 * d, e + 1)
    ELSE <<n, d, e>>

\* the floating-point number nearest to x, ties to the even significand
Rounded(x) ==
    IF x[2] = 0 \/ x[1] = 0 THEN x
    ELSE LET s == Normalised(Abs(x[1]), x[2], 0)
             q == s[1] \div s[2]
             r == s[1] % s[2]
             m == IF 2 * r > s[2] \/ (2 * r = s[2] /\ q % 2 = 1) THEN q + 1 ELSE q
         IN Reduced(IF s[3] >= 0 THEN <<Sign(x[1]) * m * Pow2(s[3]), 1>>
                    ELSE <<Sign(x[1]) * m, Pow2(0 - s[3])>>)

\* the result x of one arithmetic operation: rounded in the arithmetic "float"
\* of the program, as it is in the arithmetic "real" of the real numbers
Arith(r, x) == IF r = "float" THEN Rounded(x) ELSE x

\* the exception a float division by zero raises in a function compiled by
\* @njit with its default error model; a marker that is no value
ZeroDivisionError == <<0, -1>>

Raised(x) == x = ZeroDivisionError

\* the columns of one row of y_pred: n_classes of them for a classifier, the
\* single value for a regressor
Columns(tt) == IF tt = "classifier" THEN Classes ELSE {0}

\* a row of y_pred after resize(..., zeros=True)
ZeroRow(tt) == [c \in Columns(tt) |-> Float(0)]

\* a per-node column after the record node_idx has been written with v
WithNode(col, node_idx, v) ==
    [i \in 0 .. node_idx |-> IF i = node_idx THEN v ELSE col[i]]

---------------------------------------------------------------------------
(* Impurity of a node and of its children (Gini), and the improvements *)

\* a SqCount that adds the counts, not their squares
RECURSIVE SqCount_linear(_, _, _, _)
SqCount_linear(r, row, c, sq_count) ==
    IF c >= Size(row) THEN sq_count
    ELSE SqCount_linear(r, row, c + 1, Arith(r, Add(sq_count, Float(row[c]))))

\* "for c in range(n_classes[k]): sq_count += count_k * count_k" over one row
\* of a sum array, from the class c on
RECURSIVE SqCount(_, _, _, _)
SqCount(r, row, c, sq_count) ==
    IF c >= Size(row) THEN sq_count
    ELSE SqCount(r, row, c + 1,
                 Arith(r, Add(sq_count, Arith(r, Mul(Float(row[c]), Float(row[c]))))))

\* "for k in range(n_outputs): gini += 1.0 - sq_count / (w * w)" from the
\* output k on; the division raises when w * w is zero
RECURSIVE GiniSum(_, _, _, _, _)
GiniSum(r, sum, w, k, gini) ==
    IF k >= Size(sum) THEN gini
    ELSE LET sq_count == SqCount(r, sum[k], 0, Float(0))
             ww == Arith(r, Mul(Float(w), Float(w)))
         IN IF ww[1] = 0 THEN ZeroDivisionError
            ELSE GiniSum(r, sum, w, k + 1,
                   Arith(r, Add(gini, Arith(r, Sub(Float(1), Arith(r, Div(sq_count, ww)))))))

\* gini_node_impurity(criterion): gini / n_outputs
gini_node_impurity(r, cr) ==
    LET gini == GiniSum(r, cr.sum_total, cr.weighted_n_node_samples, 0, Float(0))
    IN IF Raised(gini) \/ Size(cr.sum_total) = 0 THEN ZeroDivisionError
       ELSE Arith(r, Div(gini, Float(Size(cr.sum_total))))

\* gini_children_impurity(criterion): <<impurity_left, impurity_right>>
gini_children_impurity(r, cr) ==
    LET gini_left == GiniSum(r, cr.sum_left, cr.weighted_n_left, 0, Float(0))
        gini_right == GiniSum(r, cr.sum_right, cr.weighted_n_right, 0, Float(0))
    IN IF Raised(gini_left) \/ Raised(gini_right) \/ Size(cr.sum_total) = 0
       THEN <<ZeroDivisionError, ZeroDivisionError>>
       ELSE <<Arith(r, Div(gini_left, Float(Size(cr.sum_total)))),
              Arith(r, Div(gini_right, Float(Size(cr.sum_total))))>>

\* a criterion_proxy_impurity_improvement that adds the weighted impurities
criterion_proxy_impurity_improvement_plus(r, cr) ==
    LET ch == gini_children_impurity(r, cr)
    IN IF Raised(ch[1]) THEN ZeroDivisionError
       ELSE Arith(r, Add(Arith(r, Mul(Float(cr.weighted_n_right), ch[2])),
                         Arith(r, Mul(Float(cr.weighted_n_left), ch[1]))))

\* criterion_proxy_impurity_improvement(criterion):
\* - weighted_n_right * impurity_right - weighted_n_left * impurity_left
criterion_proxy_impurity_improvement(r, cr) ==
    LET ch == gini_children_impurity(r, cr)
    IN IF Raised(ch[1]) THEN ZeroDivisionError
       ELSE Arith(r, Sub(Arith(r, Mul(Neg(Float(cr.weighted_n_right)), ch[2])),
                         Arith(r, Mul(Float(cr.weighted_n_left), ch[1]))))

\* criterion_impurity_improvement(criterion, impurity_parent, impurity_left,
\* impurity_right): the divisions by weighted_n_samples and by
\* weighted_n_node_samples raise when the divisor is zero
criterion_impurity_improvement(r, cr, impurity_parent, impurity_left, impurity_right) ==
    IF cr.weighted_n_samples = 0 \/ cr.weighted_n_node_samples = 0
    THEN ZeroDivisionError
    ELSE LET wn == Float(cr.weighted_n_node_samples)
             share == Arith(r, Div(wn, Float(cr.weighted_n_samples)))
             right == Arith(r, Mul(Arith(r, Div(Float(cr.weighted_n_right), wn)),
                                   impurity_right))
             left == Arith(r, Mul(Arith(r, Div(Float(cr.weighted_n_left), wn)),
                                  impurity_left))
         IN Arith(r, Mul(share,
                         Arith(r, Sub(Arith(r, Sub(impurity_parent, right)), left))))

---------------------------------------------------------------------------
(* Inputs of the criterion *)

\* label matrices y of shape (MaxSamples, n_outputs): every labelling of output
\* 0; the label of an output k > 0 is the one of output 0 shifted by i * k, so
\* that the outputs of one sample agree for some samples and differ for others
LabelMatrices ==
    {[i \in SampleIds |-> [k \in Outputs |-> (y0[i] + i * k) % max_n_classes]] :
        y0 \in [SampleIds -> Classes]}

\* weight vectors: the empty vector (uniform weight 1.0) or one weight per sample
WeightVectors == {<<>>} \cup [SampleIds -> {1, 2}]

\* sample orders maintained by the splitter: the identity and the reversed order
SampleOrders == {[p \in SampleIds |-> p], [p \in SampleIds |-> MaxSamples - 1 - p]}

\* total weight of the whole training set (the argument weighted_n_samples)
RECURSIVE TotalWeight(_, _)
TotalWeight(sw, i) ==
    IF i >= MaxSamples THEN 0
    ELSE (IF Size(sw) > 0 THEN sw[i] ELSE 1) + TotalWeight(sw, i + 1)

---------------------------------------------------------------------------
(* The criterion as a state machine *)

\* ClassificationCriterion.__init__: pos, end and the counts are zeroed, the
\* three sum arrays are np.empty (their content is whatever the memory held)
NewCriterion ==
    /\ \E g \in 0 .. 1, s \in 0 .. MaxSamples :
          criterion = [y |-> <<>>, sample_weight |-> <<>>, samples |-> <<>>,
                       start |-> s, pos |-> 0, end |-> 0,
                       n_node_samples |-> 0,
                       weighted_n_samples |-> 0,
                       weighted_n_node_samples |-> 0,
                       weighted_n_left |-> 0,
                       weighted_n_right |-> 0,
                       sum_total |-> Filled(g),
                       sum_left |-> Filled(g),
                       sum_right |-> Filled(g)]
    /\ initialised = FALSE
    /\ last_op = <<"new", 0, "none">>
    /\ fresh = FALSE
    /\ n_ops = 0
    /\ evals = <<>>

\* the builds of a forest that run side by side
Builds == {1, 2}

\* the addresses of the objects of one class
Addrs == 1 .. Cardinality(Builds)

\* an address at which no object has been made
NoObject == <<>>

\* a build that has not called the constructors
NoBuild == [constructed |-> FALSE, tree |-> 0, criterion |-> 0, log |-> <<>>]

\* no prediction is running and no build has started
NoPrediction ==
    /\ p_pc = "idle"
    /\ p_fn = "none"
    /\ p_xi = <<>>
    /\ aggregation = FALSE
    /\ step = Float(0)
    /\ idx_current = 0
    /\ pred_i = <<>>
    /\ visited = <<>>
    /\ X = <<>>
    /\ out_before = <<>>
    /\ p_i = 0
    /\ out = <<>>
    /\ heap = [tree |-> [a \in Addrs |-> NoObject],
               criterion |-> [a \in Addrs |-> NoObject]]
    /\ builds = [b \in Builds |-> NoBuild]
    /\ seed = 0

\* a freshly constructed tree of the given type, on which no find_leaf and no
\* prediction is running
NewTreeOf(tt) ==
    /\ tree = FreshTree
    /\ calls = <<>>
    /\ f_pc = "idle"
    /\ f_xi = <<>>
    /\ idx_leaf = 0
    /\ tree_type = tt
    /\ y_pred = <<>>
    /\ loss_valid = <<>>
    /\ log_weight_tree = <<>>
    /\ NoPrediction

\* a freshly constructed _TreeClassifier
NewTree == NewTreeOf("classifier")

InitCriterion == NewCriterion /\ NewTree

\* classification_criterion_init is called once per node visited; the training
\* set (y, sample_weight) and the sample order are the ones of the build, so a
\* later call on the same criterion passes them again with another range
CriterionInit ==
    \E y \in (IF initialised THEN {criterion.y} ELSE LabelMatrices),
       sw \in (IF initialised THEN {criterion.sample_weight} ELSE WeightVectors),
       samples \in (IF initialised THEN {criterion.samples} ELSE SampleOrders),
       start \in 0 .. MaxSamples :
       \E end \in start .. MaxSamples :
          /\ criterion' = classification_criterion_init(criterion, y, sw,
                               TotalWeight(sw, 0), samples, start, end)
          /\ initialised' = TRUE
          /\ last_op' = <<"init", start, "none">>
          /\ fresh' = TRUE
          /\ n_ops' = 0
          /\ UNCHANGED <<evals, treeVars, findVars, statVars, predictVars>>

CriterionReset ==
    /\ initialised
    /\ n_ops < MaxOps
    /\ criterion' = criterion_reset(criterion)
    /\ last_op' = <<"reset", criterion.start, "none">>
    /\ fresh' = TRUE
    /\ n_ops' = n_ops + 1
    /\ UNCHANGED <<initialised, evals, treeVars, findVars, statVars, predictVars>>

CriterionReverseReset ==
    /\ initialised
    /\ n_ops < MaxOps
    /\ criterion' = criterion_reverse_reset(criterion)
    /\ last_op' = <<"reverse_reset", criterion.end, "none">>
    /\ fresh' = FALSE
    /\ n_ops' = n_ops + 1
    /\ UNCHANGED <<initialised, evals, treeVars, findVars, statVars, predictVars>>

CriterionUpdate ==
    /\ initialised
    /\ n_ops < MaxOps
    /\ \E new_pos \in criterion.start .. criterion.end :
          /\ criterion' = criterion_update(criterion, new_pos)
          /\ last_op' = <<"update", new_pos,
                         IF TakesForward(criterion, new_pos) THEN "forward" ELSE "reverse">>
          /\ fresh' = (fresh /\ new_pos >= criterion.pos)
    /\ n_ops' = n_ops + 1
    /\ UNCHANGED <<initialised, evals, treeVars, findVars, statVars, predictVars>>

NextCriterion ==
    \/ CriterionInit
    \/ CriterionReset
    \/ CriterionReverseReset
    \/ CriterionUpdate

SpecCriterion == InitCriterion /\ [][NextCriterion]_vars

---------------------------------------------------------------------------
(* The scan of the split positions of one node: the criterion is           *)
(* initialised on the node, moved from position to position, and the       *)
(* impurities are evaluated at the positions                               *)

RankedIds == 0 .. (MaxRanked - 1)

\* the labels of a node of two samples of each class, in class order
TwoAndTwo == <<0, 0, 1, 1>>

\* number of samples of the smallest node whose split positions are ranked
MinRanked == Len(TwoAndTwo)

\* label matrices y of shape (MaxRanked, no), built as LabelMatrices
RankedLabels(no) ==
    {[i \in RankedIds |-> [k \in 0 .. (no - 1) |-> (y0[i] + i * k) % max_n_classes]] :
        y0 \in [RankedIds -> Classes]}

\* weight vectors: the empty vector (uniform weight 1.0), or the weight 1 for
\* every sample but one of weight 2
RankedWeights ==
    {<<>>} \cup {[i \in RankedIds |-> IF i = j THEN 2 ELSE 1] : j \in RankedIds}

\* total weight of the MaxRanked samples (the argument weighted_n_samples)
RECURSIVE RankedWeight(_, _)
RankedWeight(sw, i) ==
    IF i >= MaxRanked THEN 0
    ELSE (IF Size(sw) > 0 THEN sw[i] ELSE 1) + RankedWeight(sw, i + 1)

\* ClassificationCriterion(no, n_classes) for one or two outputs of two classes
NewCriterionOf(no) ==
    /\ \E g \in 0 .. 1 :
          criterion = [y |-> <<>>, sample_weight |-> <<>>, samples |-> <<>>,
                       start |-> 0, pos |-> 0, end |-> 0,
                       n_node_samples |-> 0,
                       weighted_n_samples |-> 0,
                       weighted_n_node_samples |-> 0,
                       weighted_n_left |-> 0,
                       weighted_n_right |-> 0,
                       sum_total |-> [k \in 0 .. (no - 1) |-> [c \in Classes |-> g]],
                       sum_left |-> [k \in 0 .. (no - 1) |-> [c \in Classes |-> g]],
                       sum_right |-> [k \in 0 .. (no - 1) |-> [c \in Classes |-> g]]]
    /\ initialised = FALSE
    /\ last_op = <<"new", 0, "none">>
    /\ fresh = FALSE
    /\ n_ops = 0
    /\ evals = <<>>

InitRank == (\E no \in 1 .. 2 : NewCriterionOf(no)) /\ NewTree

\* the two arithmetics the impurities are evaluated in
Ariths == {"float", "real"}

\* the calls gini_node_impurity, gini_children_impurity,
\* criterion_proxy_impurity_improvement and criterion_impurity_improvement
\* (with the node's and the children's impurities) at the cursor; a call that
\* follows a raising one is not made
Evaluation(cr) ==
    [pos |-> cr.pos,
     weighted_n_left |-> cr.weighted_n_left,
     weighted_n_right |-> cr.weighted_n_right,
     node |-> [r \in Ariths |-> gini_node_impurity(r, cr)],
     children |-> [r \in Ariths |-> gini_children_impurity(r, cr)],
     proxy |-> [r \in Ariths |-> criterion_proxy_impurity_improvement(r, cr)],
     improvement |->
        [r \in Ariths |->
            LET parent == gini_node_impurity(r, cr)
                ch == gini_children_impurity(r, cr)
            IN IF Raised(parent) \/ Raised(ch[1]) THEN ZeroDivisionError
               ELSE criterion_impurity_improvement(r, cr, parent, ch[1], ch[2])]]

\* classification_criterion_init on the first MinRanked or on all the
\* MaxRanked samples, in their order
RankInit ==
    /\ ~initialised
    /\ \E y \in RankedLabels(Size(criterion.sum_total)), sw \in RankedWeights,
          end \in {MinRanked, MaxRanked} :
          criterion' = classification_criterion_init(criterion, y, sw,
                            RankedWeight(sw, 0), [p \in RankedIds |-> p], 0, end)
    /\ initialised' = TRUE
    /\ last_op' = <<"init", 0, "none">>
    /\ fresh' = TRUE
    /\ n_ops' = 0
    /\ UNCHANGED <<evals, treeVars, findVars, statVars, predictVars>>

\* criterion_update to one of the next two positions; past the start, the
\* scan evaluates a position before it leaves it
RankUpdate ==
    /\ initialised
    /\ criterion.pos = criterion.start \/ criterion.pos \in DOMAIN evals
    /\ \E new_pos \in (criterion.pos + 1) .. (criterion.pos + 2) :
          /\ new_pos <= criterion.end
          /\ criterion' = criterion_update(criterion, new_pos)
          /\ last_op' = <<"update", new_pos,
                         IF TakesForward(criterion, new_pos) THEN "forward" ELSE "reverse">>
          /\ fresh' = (fresh /\ new_pos >= criterion.pos)
    /\ n_ops' = n_ops + 1
    /\ UNCHANGED <<initialised, evals, treeVars, findVars, statVars, predictVars>>

\* criterion_reverse_reset, called on the criterion as init left it
RankReverseReset ==
    /\ initialised
    /\ n_ops = 0
    /\ evals = <<>>
    /\ criterion' = criterion_reverse_reset(criterion)
    /\ last_op' = <<"reverse_reset", criterion.end, "none">>
    /\ fresh' = FALSE
    /\ n_ops' = n_ops + 1
    /\ UNCHANGED <<initialised, evals, treeVars, findVars, statVars, predictVars>>

\* the impurity functions are called at the cursor; they only read the
\* criterion
RankEvaluate ==
    /\ initialised
    /\ criterion.pos \notin DOMAIN evals
    /\ evals' = [p \in DOMAIN evals \cup {criterion.pos} |->
                    IF p = criterion.pos THEN Evaluation(criterion) ELSE evals[p]]
    /\ UNCHANGED <<criterion, initialised, last_op, fresh, n_ops,
                   treeVars, findVars, statVars, predictVars>>

NextRank ==
    \/ RankInit
    \/ RankUpdate
    \/ RankReverseReset
    \/ RankEvaluate

SpecRank == InitRank /\ [][NextRank]_vars

---------------------------------------------------------------------------
(* The arena as a state machine *)

\* largest capacity asked of resize_tree
MaxCapacity == 2 * MaxNodes

\* feature indices of the tree (n_features = 2)
Features == {0, 1}

\* bin thresholds given to the appended split nodes
BinThresholds == {5}

\* features vectors handed to find_leaf: bin codes around the thresholds
FeatureVectors == [Features -> {5, 6}]

\* the depth the builder passes for a child of `parent`
DepthUnder(t, parent) ==
    IF parent = TREE_UNDEFINED THEN 0 ELSE t.nodes[parent].depth + 1

\* a criterion object that is constructed and not used
IdleCriterion ==
    /\ NewCriterion
    /\ criterion.start = 0
    /\ criterion.sum_total = Filled(0)

InitArena == IdleCriterion /\ NewTree

\* add_node_tree(tree, parent, depth, is_left, is_leaf, feature, threshold,
\* bin_threshold, ...) with parent TREE_UNDEFINED or an appended node
AppendNode(parent, is_left, is_leaf, feature, bin_threshold) ==
    /\ f_pc = "idle"
    /\ p_pc = "idle"
    /\ tree' = add_node_tree(tree, parent, DepthUnder(tree, parent), is_left,
                             is_leaf, feature, bin_threshold, bin_threshold)
    /\ y_pred' = WithNode(y_pred, tree.node_count, ZeroRow(tree_type))
    /\ loss_valid' = WithNode(loss_valid, tree.node_count, Float(0))
    /\ log_weight_tree' = WithNode(log_weight_tree, tree.node_count, NaN)
    /\ calls' = Append(calls, [parent |-> parent, is_left |-> is_left,
                               is_leaf |-> is_leaf, ret |-> tree.node_count])
    /\ UNCHANGED <<criterionVars, findVars, tree_type, predictVars>>

\* the appends of any caller: every parent and side, leaves and split nodes
\* (the split always on feature 0: the arena does not read the feature)
AddNode ==
    \E parent \in {TREE_UNDEFINED} \cup NodeIds(tree), is_left \in BOOLEAN,
       is_leaf \in BOOLEAN, bin_threshold \in BinThresholds :
       /\ tree.node_count < MaxNodes
       /\ AppendNode(parent, is_left, is_leaf, 0, bin_threshold)

\* resize_tree(tree): capacity=None
ResizeTreeNone ==
    /\ f_pc = "idle"
    /\ (IF tree.capacity = 0 THEN 3 ELSE 2 * tree.capacity) <= MaxCapacity
    /\ tree' = resize_tree(tree, None)
    /\ UNCHANGED <<criterionVars, calls, findVars, statVars, predictVars>>

\* resize_tree(tree, capacity)
ResizeTreeTo ==
    /\ f_pc = "idle"
    /\ \E capacity \in 0 .. MaxCapacity : tree' = resize_tree(tree, capacity)
    /\ UNCHANGED <<criterionVars, calls, findVars, statVars, predictVars>>

NextArena ==
    \/ AddNode
    \/ ResizeTreeNone
    \/ ResizeTreeTo

SpecArena == InitArena /\ [][NextArena]_vars

---------------------------------------------------------------------------
(* find_leaf as a state machine over the arenas the builder grows *)

\* the child slot of node p on the given side has been written by an append
SideGiven(p, is_left) ==
    \E j \in 1 .. Len(calls) : calls[j].parent = p /\ calls[j].is_left = is_left

\* the appends of the tree builder: the root first (is_left = False), then, in
\* any order, a left and a right child for the split nodes
GrowNode ==
    \E is_left \in BOOLEAN, is_leaf \in BOOLEAN, feature \in Features,
       bin_threshold \in BinThresholds :
       \E parent \in (IF tree.node_count = 0
                      THEN (IF is_left THEN {} ELSE {TREE_UNDEFINED})
                      ELSE {p \in NodeIds(tree) :
                               ~tree.nodes[p].is_leaf /\ ~SideGiven(p, is_left)}) :
          /\ tree.node_count < MaxGrown
          /\ AppendNode(parent, is_left, is_leaf, feature, bin_threshold)

\* find_leaf(nodes, xi): idx_leaf = 0; node = nodes[idx_leaf]
FindLeafCall(xi) ==
    /\ f_pc = "idle"
    /\ tree.node_count > 0
    /\ f_xi' = xi
    /\ idx_leaf' = 0
    /\ f_pc' = "loop"
    /\ UNCHANGED <<criterionVars, treeVars, statVars, predictVars>>

FindStart == \E xi \in FeatureVectors : FindLeafCall(xi)

\* one test of "while not node["is_leaf"]" and, when it holds, one pass of
\* the body. Moving to a slot that is unwritten, or to an index that is not the
\* one of an appended node, is undefined: "fault" stands for every outcome
FindStep ==
    /\ f_pc = "loop"
    /\ LET node == tree.nodes[idx_leaf]
           child == ChildOf(node, f_xi)
       IN IF node.is_leaf
          THEN f_pc' = "done" /\ UNCHANGED idx_leaf
          ELSE /\ idx_leaf' = child
               /\ f_pc' = IF child \in NodeIds(tree) THEN "loop" ELSE "fault"
    /\ UNCHANGED <<criterionVars, treeVars, f_xi, statVars, predictVars>>

\* return idx_leaf: the call is over and its locals are gone
FindReturn ==
    /\ f_pc = "done"
    /\ f_pc' = "idle"
    /\ f_xi' = <<>>
    /\ idx_leaf' = 0
    /\ UNCHANGED <<criterionVars, treeVars, statVars, predictVars>>

NextFind ==
    \/ GrowNode
    \/ FindStart
    \/ FindStep
    \/ FindReturn

SpecFind == InitArena /\ [][NextFind]_vars

\* a call of find_leaf that has started keeps running
SpecFindFair == SpecFind /\ WF_vars(FindStep)

---------------------------------------------------------------------------
(* The three-node tree: a root splitting feature 0 at bin 5 and two leaves *)

\* the features vectors with every bin code for feature 0
CodeVectors ==
    {[f \in Features |-> IF f = 0 THEN code ELSE 0] : code \in 0 .. MaxBinCode}

\* the three add_node_tree calls, in order: root, left leaf, right leaf
BuildThreeNodes ==
    /\ tree.node_count < 3
    /\ \/ /\ tree.node_count = 0
          /\ AppendNode(TREE_UNDEFINED, FALSE, FALSE, 0, 5)
       \/ /\ tree.node_count = 1
          /\ AppendNode(0, TRUE, TRUE, 0, 0)
       \/ /\ tree.node_count = 2
          /\ AppendNode(0, FALSE, TRUE, 0, 0)

FindStartCode == \E xi \in CodeVectors : FindLeafCall(xi)

NextThreeNodes ==
    \/ BuildThreeNodes
    \/ FindStartCode
    \/ FindStep
    \/ FindReturn

SpecThreeNodes == InitArena /\ [][NextThreeNodes]_vars

---------------------------------------------------------------------------
(* Predictions: tree_classifier_predict_proba, tree_regressor_predict and   *)
(* tree_regressor_weighted_depth, for one row of X                          *)

\* find_leaf(nodes, xi) as the predictions call it: the index it returns
RECURSIVE LeafFrom(_, _, _)
LeafFrom(nodes, xi, idx) ==
    IF nodes[idx].is_leaf THEN idx
    ELSE LeafFrom(nodes, xi, ChildOf(nodes[idx], xi))

find_leaf(nodes, xi) == LeafFrom(nodes, xi, 0)

\* the prediction functions defined for a tree of the given type
Functions(tt) ==
    IF tt = "classifier" THEN {"tree_classifier_predict_proba"}
    ELSE {"tree_regressor_predict", "tree_regressor_weighted_depth"}

\* a test that walks up whatever the flag says
Aggregates_always(fn, agg) == TRUE

\* "if aggregation:"; tree_regressor_weighted_depth has no such test
Aggregates(fn, agg) == fn = "tree_regressor_weighted_depth" \/ agg

\* a NodeValue that reads y_pred in every function
NodeValue_pred(fn, n) == y_pred[n]

\* a NodeValue that scales the value of a leaf by the leaf's loss_valid
NodeValue_leaf_loss(fn, n) ==
    LET v == IF fn = "tree_regressor_weighted_depth"
             THEN [c \in {0} |-> Float(tree.nodes[n].depth)]
             ELSE y_pred[n]
    IN IF tree.nodes[n].is_leaf
       THEN [c \in DOMAIN v |-> Mul(loss_valid[n], v[c])]
       ELSE v

\* what a node contributes: y_pred[n], or float32(node["depth"]) in
\* tree_regressor_weighted_depth
NodeValue(fn, n) ==
    IF fn = "tree_regressor_weighted_depth"
    THEN [c \in {0} |-> Float(tree.nodes[n].depth)]
    ELSE y_pred[n]

\* an Alpha that adds the log-weight
Alpha_plus(n, st) ==
    Mul(<<1, 2>>, exp(Add(Mul(Neg(st), loss_valid[n]), log_weight_tree[n])))

\* loss = -step * node["loss_valid"]; alpha = 0.5 * exp(loss - log_weight_tree)
Alpha(n, st) ==
    Mul(<<1, 2>>, exp(Sub(Mul(Neg(st), loss_valid[n]), log_weight_tree[n])))

\* pred_i = alpha * node_pred + (1 - alpha) * pred_i
Blend(alpha, node_pred, pred) ==
    [c \in DOMAIN pred |->
        Add(Mul(alpha, node_pred[c]), Mul(Sub(Float(1), alpha), pred[c]))]

\* a loop test that stops at the root's parent instead of the root
LoopRuns_undefined(idx) == idx # TREE_UNDEFINED

\* "while idx_current != 0"
LoopRuns(idx) == idx # 0

\* the statements up to the loop: idx_current = find_leaf(nodes, X[i]), then
\* pred_i = y_pred[idx_current] (weighted_depth = float32(node["depth"]))
PredictCall(fn, xi, agg, st, leaf) ==
    /\ p_pc = "idle"
    /\ f_pc = "idle"
    /\ tree.node_count > 0
    /\ p_fn' = fn
    /\ p_xi' = xi
    /\ aggregation' = agg
    /\ step' = st
    /\ idx_current' = leaf
    /\ pred_i' = NodeValue(fn, leaf)
    /\ visited' = <<leaf>>
    /\ p_pc' = IF Aggregates(fn, agg) THEN "loop" ELSE "done"
    /\ UNCHANGED <<criterionVars, treeVars, findVars, statVars, batchVars, forestVars>>

\* the values of step
Steps == {Float(1), Float(2)}

\* a prediction for one row of X on a fitted tree
PredictStart ==
    \E fn \in Functions(tree_type), xi \in FeatureVectors, agg \in BOOLEAN,
       st \in Steps :
        /\ fn = "tree_regressor_weighted_depth" => agg
        /\ PredictCall(fn, xi, agg, st, find_leaf(tree.nodes, xi))

\* one test of the while loop and, when it holds, one pass of its body; a
\* parent value that is not the index of a node is not a valid index ("fault")
PredictStep ==
    /\ p_pc = "loop"
    /\ IF LoopRuns(idx_current)
       THEN LET parent == tree.nodes[idx_current].parent IN
            /\ idx_current' = parent
            /\ visited' = Append(visited, parent)
            /\ IF parent \in NodeIds(tree)
               THEN /\ pred_i' = Blend(Alpha(parent, step),
                                       NodeValue(p_fn, parent), pred_i)
                    /\ p_pc' = "loop"
               ELSE /\ p_pc' = "fault"
                    /\ UNCHANGED pred_i
       ELSE /\ p_pc' = "done"
            /\ UNCHANGED <<idx_current, pred_i, visited>>
    /\ UNCHANGED <<criterionVars, treeVars, findVars, statVars,
                   p_fn, p_xi, aggregation, step, batchVars, forestVars>>

\* out[i] = pred_i: the row is done
PredictReturn ==
    /\ p_pc = "done"
    /\ p_pc' = "idle"
    /\ p_fn' = "none"
    /\ p_xi' = <<>>
    /\ aggregation' = FALSE
    /\ step' = Float(0)
    /\ idx_current' = 0
    /\ pred_i' = <<>>
    /\ visited' = <<>>
    /\ UNCHANGED <<criterionVars, treeVars, findVars, statVars, batchVars, forestVars>>

\* the add_node_tree calls that grow a tree of depth d: the root, then at every
\* level a left child (a split node above the last level) and a right leaf
CombCalls(d) ==
    [j \in 1 .. (2 * d + 1) |->
        IF j = 1
        THEN [parent |-> TREE_UNDEFINED, is_left |-> FALSE, is_leaf |-> d = 0,
              ret |-> 0]
        ELSE LET k == j \div 2 IN
             [parent |-> IF k = 1 THEN 0 ELSE 2 * k - 3,
              is_left |-> j % 2 = 0,
              is_leaf |-> (j % 2 = 1) \/ k = d,
              ret |-> j - 1]]

\* the tree after the first n calls of cs; the split nodes test feature 0 at
\* even depths and feature 1 at odd depths, against the bin threshold 5
RECURSIVE BuildTree(_, _)
BuildTree(cs, n) ==
    IF n = 0 THEN FreshTree
    ELSE LET t == BuildTree(cs, n - 1)
             c == cs[n]
             depth == DepthUnder(t, c.parent)
         IN add_node_tree(t, c.parent, depth, c.is_left, c.is_leaf,
                          depth % 2, 5, 5)

\* the rows of y_pred: one-hot class probabilities, or the value 0 or 1
Rows(tt) ==
    IF tt = "classifier"
    THEN {[c \in Classes |-> Float(IF c = k THEN 1 ELSE 0)] : k \in Classes}
    ELSE {[c \in {0} |-> Float(v)] : v \in {0, 1}}

\* a fitted tree: the training has filled y_pred for every node and loss_valid
\* and log_weight_tree for the split nodes; the leaves keep loss_valid = 0 and
\* the NaN that add_node_tree wrote
InitPredict ==
    /\ IdleCriterion
    /\ f_pc = "idle" /\ f_xi = <<>> /\ idx_leaf = 0
    /\ NoPrediction
    /\ \E d \in 0 .. MaxDepth :
          /\ calls = CombCalls(d)
          /\ tree = BuildTree(CombCalls(d), 2 * d + 1)
    /\ tree_type \in {"classifier", "regressor"}
    /\ y_pred \in [NodeIds(tree) -> Rows(tree_type)]
    /\ loss_valid \in {f \in [NodeIds(tree) -> {Float(0), Float(1)}] :
                         \A n \in NodeIds(tree) :
                            tree.nodes[n].is_leaf => f[n] = Float(0)}
    /\ log_weight_tree \in {f \in [NodeIds(tree) -> {Float(1), NaN}] :
                              \A n \in NodeIds(tree) :
                                 tree.nodes[n].is_leaf => f[n] = NaN}

NextPredict ==
    \/ PredictStart
    \/ PredictStep
    \/ PredictReturn

SpecPredict == InitPredict /\ [][NextPredict]_vars

\* a freshly constructed _TreeRegressor
InitAncestors == IdleCriterion /\ NewTreeOf("regressor")

\* the leaf-to-root walk of tree_regressor_predict (aggregation = True) and of
\* tree_regressor_weighted_depth, from any leaf find_leaf may have returned
AncestorsStart ==
    \E fn \in Functions(tree_type), leaf \in NodeIds(tree), st \in {Float(1)} :
        /\ tree.nodes[leaf].is_leaf
        /\ PredictCall(fn, <<>>, TRUE, st, leaf)

NextAncestors ==
    \/ AddNode
    \/ AncestorsStart
    \/ PredictStep
    \/ PredictReturn

SpecAncestors == InitAncestors /\ [][NextAncestors]_vars

SpecAncestorsFair == SpecAncestors /\ WF_vars(PredictStep)

---------------------------------------------------------------------------
(* The batch calls: tree_apply, tree_classifier_predict_proba,             *)
(* tree_regressor_predict and tree_regressor_weighted_depth over the rows  *)
(* of X                                                                    *)

\* the functions that take a matrix X
BatchFunctions(tt) == Functions(tt) \cup {"tree_apply"}

\* matrices X of MaxRows rows
Matrices == [1 .. MaxRows -> FeatureVectors]

\* a RowOf that reads the first row whatever i is
RowOf_first(x, i) == x[1]

\* X[i]
RowOf(x, i) == x[i + 1]

\* a scalar as a row of one value
Scalar(v) == [c \in {0} |-> v]

\* out = np.zeros(...): one zero row per row of X
ZeroOut(fn, tt) ==
    [i \in 0 .. (MaxRows - 1) |->
        IF fn = "tree_classifier_predict_proba" THEN ZeroRow(tt) ELSE Scalar(Float(0))]

\* a fitted tree of some depth: the training has given every node its own
\* prediction, and every split node loss_valid = 1 and log_weight_tree = 1
InitBatch ==
    /\ IdleCriterion
    /\ f_pc = "idle" /\ f_xi = <<>> /\ idx_leaf = 0
    /\ NoPrediction
    /\ \E d \in 0 .. MaxDepth :
          /\ calls = CombCalls(d)
          /\ tree = BuildTree(CombCalls(d), 2 * d + 1)
    /\ tree_type \in {"classifier", "regressor"}
    /\ y_pred = [n \in NodeIds(tree) |->
                   [c \in Columns(tree_type) |-> Float(IF c = 0 THEN n ELSE 1)]]
    /\ loss_valid = [n \in NodeIds(tree) |->
                       IF tree.nodes[n].is_leaf THEN Float(0) ELSE Float(1)]
    /\ log_weight_tree = [n \in NodeIds(tree) |->
                            IF tree.nodes[n].is_leaf THEN NaN ELSE Float(1)]

\* the call and the statements before the loop over the rows
BatchCall ==
    /\ p_pc = "idle"
    /\ X = <<>>
    /\ \E fn \in BatchFunctions(tree_type), x \in Matrices, agg \in BOOLEAN,
          st \in Steps :
          /\ fn = "tree_regressor_weighted_depth" => agg
          /\ fn = "tree_apply" => (~agg /\ st = Float(1))
          /\ p_fn' = fn
          /\ X' = x
          /\ aggregation' = agg
          /\ step' = st
          /\ out' = ZeroOut(fn, tree_type)
    /\ p_i' = 0
    /\ p_pc' = "row"
    /\ UNCHANGED <<criterionVars, treeVars, findVars, statVars,
                   p_xi, idx_current, pred_i, visited, out_before, forestVars>>

\* "for i in range(n_samples)": the statements of one row up to the while
\* loop; tree_apply has none after find_leaf
RowStart ==
    /\ p_pc = "row"
    /\ p_i < Len(X)
    /\ LET xi == RowOf(X, p_i)
           leaf == find_leaf(tree.nodes, xi)
       IN /\ p_xi' = xi
          /\ idx_current' = leaf
          /\ visited' = <<leaf>>
          /\ pred_i' = IF p_fn = "tree_apply" THEN Scalar(Float(leaf))
                       ELSE NodeValue(p_fn, leaf)
          /\ p_pc' = IF p_fn # "tree_apply" /\ Aggregates(p_fn, aggregation)
                      THEN "loop" ELSE "done"
    /\ UNCHANGED <<criterionVars, treeVars, findVars, statVars,
                   p_fn, aggregation, step, batchVars, forestVars>>

\* out[i] = pred_i (out[i] = idx_leaf in tree_apply), and the next row
RowEnd ==
    /\ p_pc = "done"
    /\ out' = [out EXCEPT ![p_i] = pred_i]
    /\ p_i' = p_i + 1
    /\ p_pc' = "row"
    /\ UNCHANGED <<criterionVars, treeVars, findVars, statVars,
                   p_fn, p_xi, aggregation, step, idx_current, pred_i, visited, X,
                   out_before, forestVars>>

\* return out
BatchReturn ==
    /\ p_pc = "row"
    /\ p_i >= Len(X)
    /\ p_pc' = "returned"
    /\ UNCHANGED <<criterionVars, treeVars, findVars, statVars,
                   p_fn, p_xi, aggregation, step, idx_current, pred_i, visited,
                   batchVars, forestVars>>

NextBatch ==
    \/ BatchCall
    \/ RowStart
    \/ PredictStep
    \/ RowEnd
    \/ BatchReturn

SpecBatch == InitBatch /\ [][NextBatch]_vars

\* the leaves of the tree
Leaves == {n \in NodeIds(tree) : tree.nodes[n].is_leaf}

\* the same call once more, on an arena in which some leaves have got another
\* loss_valid and another log_weight_tree
BatchCallAgain ==
    /\ p_pc = "returned"
    /\ out_before = <<>>
    /\ \E S \in SUBSET Leaves \ {{}} :
          /\ loss_valid' = [n \in NodeIds(tree) |->
                               IF n \in S THEN Float(3) ELSE loss_valid[n]]
          /\ log_weight_tree' = [n \in NodeIds(tree) |->
                                    IF n \in S THEN Float(2) ELSE log_weight_tree[n]]
    /\ out_before' = out
    /\ out' = ZeroOut(p_fn, tree_type)
    /\ p_i' = 0
    /\ p_pc' = "row"
    /\ UNCHANGED <<criterionVars, treeVars, findVars, tree_type, y_pred,
                   p_fn, p_xi, aggregation, step, idx_current, pred_i, visited,
                   X, forestVars>>

NextLeaves ==
    \/ BatchCall
    \/ RowStart
    \/ PredictStep
    \/ RowEnd
    \/ BatchReturn
    \/ BatchCallAgain

SpecLeaves == InitBatch /\ [][NextLeaves]_vars

---------------------------------------------------------------------------
(* Appends to a tree whose predictions the training has already written *)

\* a freshly constructed tree, or a tree of some depth, on which no walk is
\* running: y_pred holds a prediction for every node, loss_valid and
\* log_weight_tree are as add_node_tree left them
InitAppend ==
    /\ IdleCriterion
    /\ f_pc = "idle" /\ f_xi = <<>> /\ idx_leaf = 0
    /\ NoPrediction
    /\ \E d \in 0 .. MaxDepth :
          \E n \in {0, 2 * d + 1} :
             /\ calls = SubSeq(CombCalls(d), 1, n)
             /\ tree = BuildTree(CombCalls(d), n)
    /\ tree_type \in {"classifier", "regressor"}
    /\ y_pred \in [NodeIds(tree) -> Rows(tree_type)]
    /\ loss_valid = [n \in NodeIds(tree) |-> Float(0)]
    /\ log_weight_tree = [n \in NodeIds(tree) |-> NaN]

NextAppend == AddNode

SpecAppend == InitAppend /\ [][NextAppend]_vars

---------------------------------------------------------------------------
(* Reference quantities for the criterion claims *)

\* the weight of the sample at position p of the sample order
WeightAt(cr, p) ==
    IF Size(cr.sample_weight) > 0 THEN cr.sample_weight[cr.samples[p]] ELSE 1

\* the total weight of the samples in samples[a:b] whose label for output k is c
RECURSIVE ClassWeight(_, _, _, _, _)
ClassWeight(cr, a, b, k, c) ==
    IF a >= b THEN 0
    ELSE (IF cr.y[cr.samples[a]][k] = c THEN WeightAt(cr, a) ELSE 0)
         + ClassWeight(cr, a + 1, b, k, c)

\* sum_left and sum_right of cr are the weighted class counts of
\* samples[start:p] and samples[p:end]
StatisticsAt(cr, p) ==
    \A k \in Outputs, c \in Classes :
        /\ cr.sum_left[k][c] = ClassWeight(cr, cr.start, p, k, c)
        /\ cr.sum_right[k][c] = ClassWeight(cr, p, cr.end, k, c)

\* the step is a call of criterion_update
IsUpdateStep == n_ops' = n_ops + 1 /\ last_op'[1] = "update"

---------------------------------------------------------------------------
(* Appends with every kind of split arguments *)

\* the arguments threshold (float32) and bin_threshold (uint8) of an append:
\* a threshold and the bin code under it, and the extreme bin codes
SplitArguments == {<<7, 5>>, <<TREE_UNDEFINED, MaxBinCode>>, <<0, 0>>}

InitSplits == IdleCriterion /\ NewTree

\* add_node_tree(tree, parent, depth, is_left, is_leaf, feature, threshold,
\* bin_threshold, ...) as the root or as the left child of the last node
AddNodeWith ==
    \E is_leaf \in BOOLEAN, feature \in Features, a \in SplitArguments :
       LET parent == IF tree.node_count = 0 THEN TREE_UNDEFINED
                     ELSE tree.node_count - 1
           is_left == tree.node_count > 0
       IN /\ tree.node_count < MaxNodes
          /\ tree' = add_node_tree(tree, parent, DepthUnder(tree, parent),
                                   is_left, is_leaf, feature, a[1], a[2])
          /\ y_pred' = WithNode(y_pred, tree.node_count, ZeroRow(tree_type))
          /\ loss_valid' = WithNode(loss_valid, tree.node_count, Float(0))
          /\ log_weight_tree' = WithNode(log_weight_tree, tree.node_count, NaN)
          /\ calls' = Append(calls, [parent |-> parent, is_left |-> is_left,
                                     is_leaf |-> is_leaf, ret |-> tree.node_count,
                                     feature |-> feature, threshold |-> a[1],
                                     bin_threshold |-> a[2]])
          /\ UNCHANGED <<criterionVars, findVars, tree_type, predictVars>>

NextSplits == AddNodeWith

SpecSplits == InitSplits /\ [][NextSplits]_vars

---------------------------------------------------------------------------
(* Two builds side by side: each calls the constructors, then add_node_tree, *)
(* resize_tree and the criterion's init, reset and update on its own objects *)

\* an allocation that hands out the first address again
Alloc_shared(h) == 1

\* np.empty and the jitclass constructors make a new object: the first
\* address at which there is none
Alloc(h) ==
    CHOOSE a \in Addrs :
        /\ h[a] = NoObject
        /\ \A b \in Addrs : b < a => h[b] # NoObject

\* _TreeClassifier.__init__ and ClassificationCriterion.__init__: the objects
\* of a build before its first call (the sums are np.empty)
FreshBuild ==
    [tree |-> FreshTree,
     y_pred |-> <<>>,
     criterion |-> [y |-> <<>>, sample_weight |-> <<>>, samples |-> <<>>,
                    start |-> 0, pos |-> 0, end |-> 0,
                    n_node_samples |-> 0,
                    weighted_n_samples |-> 0,
                    weighted_n_node_samples |-> 0,
                    weighted_n_left |-> 0,
                    weighted_n_right |-> 0,
                    sum_total |-> Filled(UNINIT),
                    sum_left |-> Filled(UNINIT),
                    sum_right |-> Filled(UNINIT)]]

\* the label matrix whose output 0 is v for the odd samples and 0 for the
\* others
BuildLabels(v) ==
    [i \in SampleIds |-> [k \in Outputs |-> (v * i + i * k) % max_n_classes]]

\* the calls a build may make next on its objects o, as <<function, arguments>>:
\* an append as the root or under the last node, a resize, and the criterion
\* calls (reset and update once init has run)
BuildCalls(o) ==
    {<<"add_node_tree", parent, is_left, is_leaf>> :
        parent \in (IF o.tree.node_count = 0 THEN {TREE_UNDEFINED}
                    ELSE {o.tree.node_count - 1}),
        is_left \in (IF o.tree.node_count = 0 THEN {FALSE} ELSE BOOLEAN),
        is_leaf \in BOOLEAN}
    \cup {<<"resize_tree", None, FALSE, FALSE>>}
    \cup {<<"classification_criterion_init", v, FALSE, FALSE>> : v \in 0 .. 1}
    \cup (IF o.criterion.y = <<>> THEN {}
          ELSE {<<"criterion_reset", 0, FALSE, FALSE>>}
               \cup {<<"criterion_update", new_pos, FALSE, FALSE>> :
                        new_pos \in {o.criterion.pos, o.criterion.end}})

\* the objects o after the call c
AfterCall(o, c) ==
    IF c[1] = "add_node_tree"
    THEN [o EXCEPT !.tree = add_node_tree(o.tree, c[2], DepthUnder(o.tree, c[2]),
                                          c[3], c[4], 0, 5, 5),
                   !.y_pred = WithNode(o.y_pred, o.tree.node_count,
                                       ZeroRow("classifier"))]
    ELSE IF c[1] = "resize_tree"
    THEN [o EXCEPT !.tree = resize_tree(o.tree, c[2])]
    ELSE IF c[1] = "classification_criterion_init"
    THEN [o EXCEPT !.criterion =
              classification_criterion_init(o.criterion, BuildLabels(c[2]), <<>>,
                  TotalWeight(<<>>, 0), [p \in SampleIds |-> p], 0, MaxSamples)]
    ELSE IF c[1] = "criterion_reset"
    THEN [o EXCEPT !.criterion = criterion_reset(o.criterion)]
    ELSE [o EXCEPT !.criterion = criterion_update(o.criterion, c[2])]

\* the objects of build b, read through its addresses
ObjectsOf(b) ==
    [tree |-> heap.tree[builds[b].tree].tree,
     y_pred |-> heap.tree[builds[b].tree].y_pred,
     criterion |-> heap.criterion[builds[b].criterion]]

InitBuilds == IdleCriterion /\ NewTree

\* build b calls the two constructors; the tree's constructor seeds numba's
\* random generator with the build's random_state
Construct(b) ==
    /\ ~builds[b].constructed
    /\ LET t == Alloc(heap.tree)
           c == Alloc(heap.criterion)
       IN /\ heap' = [tree |-> [heap.tree EXCEPT ![t] =
                                   [tree |-> FreshBuild.tree,
                                    y_pred |-> FreshBuild.y_pred]],
                      criterion |-> [heap.criterion EXCEPT ![c] =
                                        FreshBuild.criterion]]
          /\ builds' = [builds EXCEPT ![b] = [constructed |-> TRUE, tree |-> t,
                                              criterion |-> c, log |-> <<>>]]
    /\ seed' = b
    /\ UNCHANGED <<criterionVars, treeVars, findVars, statVars,
                   p_pc, p_fn, p_xi, aggregation, step, idx_current, pred_i,
                   visited, batchVars>>

\* build b makes one call on its tree or on its criterion
BuildCall(b) ==
    /\ builds[b].constructed
    /\ Len(builds[b].log) < MaxCalls
    /\ \E c \in BuildCalls(ObjectsOf(b)) :
          LET o == AfterCall(ObjectsOf(b), c) IN
          /\ heap' = [tree |-> [heap.tree EXCEPT ![builds[b].tree] =
                                   [tree |-> o.tree, y_pred |-> o.y_pred]],
                      criterion |-> [heap.criterion EXCEPT ![builds[b].criterion] =
                                        o.criterion]]
          /\ builds' = [builds EXCEPT ![b].log = Append(@, c)]
    /\ UNCHANGED <<criterionVars, treeVars, findVars, statVars,
                   p_pc, p_fn, p_xi, aggregation, step, idx_current, pred_i,
                   visited, batchVars, seed>>

NextBuilds == \E b \in Builds : Construct(b) \/ BuildCall(b)

SpecBuilds == InitBuilds /\ [][NextBuilds]_vars

---------------------------------------------------------------------------
(* The scan of one node: updates that move the cursor towards the end, with *)
(* the positions p at which the loops of criterion_update read samples[p]   *)

\* range(a, b): a, a + 1, ..., b - 1
Range(a, b) == [j \in 1 .. (b - a) |-> a + j - 1]

\* range(a, b, -1): a, a - 1, ..., b + 1
RangeDown(a, b) == [j \in 1 .. (a - b) |-> a - j + 1]

\* the positions visited by the loop of the branch criterion_update(new_pos)
\* takes
Visits(cr, new_pos) ==
    IF TakesForward(cr, new_pos) THEN Range(cr.pos, new_pos)
    ELSE RangeDown(cr.end - 1, new_pos - 1)

InitCursor == IdleCriterion /\ NewTree

\* how the criterion stands when classification_criterion_init is called with
\* the range start .. end: not used yet, used on another node with its cursor
\* moved, or otherwise
UseBefore(start, end) ==
    IF ~initialised THEN "new"
    ELSE IF /\ <<criterion.start, criterion.end>> # <<start, end>>
            /\ criterion.pos > criterion.start
    THEN "moved"
    ELSE "used"

\* classification_criterion_init on a node range, on a new criterion or on
\* one that has been used (the sample weights are those of the build, the
\* sample order is the splitter's); it ends with criterion_reset
ScanInit ==
    \E sw \in (IF initialised THEN {criterion.sample_weight}
                ELSE {<<>>, [i \in RankedIds |-> 2]}),
       samples \in {[p \in RankedIds |-> p],
                    [p \in RankedIds |-> MaxRanked - 1 - p]},
       start \in 0 .. MaxDepth :
       \E end \in start .. MaxRanked :
          /\ criterion' = classification_criterion_init(criterion,
                               [i \in RankedIds |->
                                   [k \in Outputs |-> (i + i * k) % max_n_classes]],
                               sw, RankedWeight(sw, 0), samples, start, end)
          /\ initialised' = TRUE
          /\ last_op' = <<"init",
                          [sample_weight |-> sw, samples |-> samples,
                           start |-> start, end |-> end],
                          UseBefore(start, end)>>
          /\ fresh' = TRUE
          /\ n_ops' = 0
          /\ visited' = <<>>
          /\ UNCHANGED <<evals, treeVars, findVars, statVars, p_pc, p_fn, p_xi,
                         aggregation, step, idx_current, pred_i, batchVars,
                         forestVars>>

\* criterion_reset: the scan starts again
ScanReset ==
    /\ initialised
    /\ n_ops < MaxOps
    /\ criterion' = criterion_reset(criterion)
    /\ last_op' = <<"reset", criterion.start, "none">>
    /\ fresh' = TRUE
    /\ n_ops' = n_ops + 1
    /\ visited' = <<>>
    /\ UNCHANGED <<initialised, evals, treeVars, findVars, statVars, p_pc, p_fn,
                   p_xi, aggregation, step, idx_current, pred_i, batchVars,
                   forestVars>>

\* criterion_update(new_pos) with pos <= new_pos <= end
ScanUpdate ==
    /\ initialised
    /\ n_ops < MaxOps
    /\ \E new_pos \in criterion.pos .. criterion.end :
          /\ criterion' = criterion_update(criterion, new_pos)
          /\ last_op' = <<"update", new_pos,
                          IF TakesForward(criterion, new_pos) THEN "forward"
                          ELSE "reverse">>
          /\ visited' = visited \o Visits(criterion, new_pos)
    /\ fresh' = fresh
    /\ n_ops' = n_ops + 1
    /\ UNCHANGED <<initialised, evals, treeVars, findVars, statVars, p_pc, p_fn,
                   p_xi, aggregation, step, idx_current, pred_i, batchVars,
                   forestVars>>

NextCursor == ScanInit \/ ScanReset \/ ScanUpdate

SpecCursor == InitCursor /\ [][NextCursor]_vars

---------------------------------------------------------------------------
(* Claims about the criterion *)

IsResetStep == n_ops' = n_ops + 1 /\ last_op'[1] = "reset"

IsReverseResetStep == n_ops' = n_ops + 1 /\ last_op'[1] = "reverse_reset"

\* the total weight of the samples in samples[a:b]
RECURSIVE RangeWeight(_, _, _)
RangeWeight(cr, a, b) ==
    IF a >= b THEN 0 ELSE WeightAt(cr, a) + RangeWeight(cr, a + 1, b)

\* a weight vector in which every sample has weight 1.0
UnitWeights == [i \in SampleIds |-> 1]

\* the sums and weighted counts of two criteria are the same
SameStatistics(a, b) ==
    /\ a.sum_total = b.sum_total
    /\ a.sum_left = b.sum_left
    /\ a.sum_right = b.sum_right
    /\ a.weighted_n_node_samples = b.weighted_n_node_samples
    /\ a.weighted_n_left = b.weighted_n_left
    /\ a.weighted_n_right = b.weighted_n_right

\* C17: from any initialised state, criterion_reset yields pos == start,
\* sum_left == 0, sum_right == sum_total, weighted_n_left == 0 and
\* weighted_n_right == weighted_n_node_samples; criterion_reverse_reset yields
\* the mirror image at pos == end; neither changes sum_total, start or end.
C17_ResetSymmetry ==
    [][/\ (initialised /\ IsResetStep) =>
             /\ criterion'.pos = criterion'.start
             /\ criterion'.sum_left = Filled(0)
             /\ criterion'.sum_right = criterion'.sum_total
             /\ criterion'.weighted_n_left = 0
             /\ criterion'.weighted_n_right = criterion'.weighted_n_node_samples
       /\ (initialised /\ IsReverseResetStep) =>
             /\ criterion'.pos = criterion'.end
             /\ criterion'.sum_left = criterion'.sum_total
             /\ criterion'.sum_right = Filled(0)
             /\ criterion'.weighted_n_left = criterion'.weighted_n_node_samples
             /\ criterion'.weighted_n_right = 0
       /\ (initialised /\ (IsResetStep \/ IsReverseResetStep)) =>
             /\ criterion'.sum_total = criterion.sum_total
             /\ criterion'.start = criterion.start
             /\ criterion'.end = criterion.end]_vars

\* C17 witness: a reverse_reset, after other calls, of a node with weighted
\* samples of both classes
C17_Witness ==
    /\ initialised
    /\ n_ops >= 2
    /\ last_op[1] = "reverse_reset"
    /\ criterion.end - criterion.start >= 2
    /\ \A c \in Classes : criterion.sum_total[0][c] > 0
    /\ Size(criterion.sample_weight) > 0

C20_EmptyWeightsAreUnit ==
    [][/\ (Size(criterion'.sample_weight) = 0 /\ last_op'[1] = "init") =>
             SameStatistics(criterion',
                 classification_criterion_init(criterion, criterion'.y,
                     UnitWeights, criterion'.weighted_n_samples,
                     criterion'.samples, criterion'.start, criterion'.end))
       /\ (initialised /\ Size(criterion.sample_weight) = 0 /\ IsUpdateStep) =>
             SameStatistics(criterion',
                 criterion_update([criterion EXCEPT !.sample_weight = UnitWeights],
                                  last_op'[2]))]_vars

\* C20 witness: an update through the reverse branch, into the interior of a
\* node, without sample weights
C20_Witness ==
    /\ initialised
    /\ Size(criterion.sample_weight) = 0
    /\ last_op = <<"update", criterion.pos, "reverse">>
    /\ criterion.start < criterion.pos
    /\ criterion.pos < criterion.end

---------------------------------------------------------------------------
(* Claims about the node arena *)

\* the side on which node n was appended under its parent
SideOf(n) == calls[n + 1].is_left

\* the child slot of node p on the given side
Slot(t, p, is_left) ==
    IF is_left THEN t.nodes[p].left_child ELSE t.nodes[p].right_child

\* no two add_node_tree calls named the same parent with the same is_left
NoRepeatedSide ==
    \A i, j \in 1 .. Len(calls) :
        (i # j /\ calls[i].parent # TREE_UNDEFINED /\ calls[i].parent = calls[j].parent)
            => calls[i].is_left # calls[j].is_left

\* no add_node_tree call named a leaf as parent
NoLeafParent ==
    \A n \in NodeIds(tree) :
        tree.nodes[n].parent # TREE_UNDEFINED => ~tree.nodes[tree.nodes[n].parent].is_leaf

\* C4: after n calls of add_node_tree on a freshly constructed tree,
\* node_count = n, capacity >= n, and the k-th call returned k - 1.
C4_AppendCounts ==
    /\ tree.node_count = Len(calls)
    /\ tree.capacity >= Len(calls)
    /\ \A k \in 1 .. Len(calls) : calls[k].ret = k - 1

\* C4 witness: four appends, the fourth of which found the arena full
C4_Witness ==
    /\ Len(calls) = 4
    /\ tree.capacity = 6

\* C5: across add_node_tree and resize_tree calls (capacity given or None),
\* node_count never decreases, capacity never decreases, and node_count <=
\* capacity after every call.
C5_Monotone ==
    [][/\ tree'.node_count >= tree.node_count
       /\ tree'.capacity >= tree.capacity
       /\ tree'.node_count <= tree'.capacity]_vars

\* C5 witness: an explicit resize to 7 slots, then four appends and an ignored
\* request for fewer slots
C5_Witness ==
    /\ tree.node_count = 4
    /\ tree.capacity = 7

\* C6 as stated: in every arena reachable by add_node_tree calls whose parent
\* is TREE_UNDEFINED or an appended node, for every node n with a parent
\* exactly one of the parent's left_child and right_child equals n's index.
C6_ExactlyOneSlot ==
    \A n \in NodeIds(tree) :
        LET p == tree.nodes[n].parent IN
        p # TREE_UNDEFINED =>
            \A l \in FieldValues(tree.nodes[p].left_child),
               r \in FieldValues(tree.nodes[p].right_child) :
                (l = n) # (r = n)

\* C6 amended: when moreover no two calls named the same parent with the same
\* is_left, for every node n with a parent p the slot of p on n's side holds
\* n's index, and the other slot, once written (p was appended as a leaf or
\* got a child on the other side), does not: exactly one of the two equals n.
C6_LinkedOnce ==
    NoRepeatedSide =>
        \A n \in NodeIds(tree) :
            LET p == tree.nodes[n].parent IN
            p # TREE_UNDEFINED =>
                /\ Slot(tree, p, SideOf(n)) = n
                /\ (tree.nodes[p].is_leaf \/ SideGiven(p, ~SideOf(n)))
                      => \A o \in FieldValues(Slot(tree, p, ~SideOf(n))) : o # n

\* C6 witness: a split node that received one left and one right child
C6_Witness ==
    /\ NoRepeatedSide
    /\ \E p \in NodeIds(tree) :
          /\ ~tree.nodes[p].is_leaf
          /\ SideGiven(p, TRUE)
          /\ SideGiven(p, FALSE)

\* C7 as stated: in every arena reachable by add_node_tree calls, every node
\* with is_leaf = true has left_child = right_child = TREE_LEAF and feature =
\* TREE_UNDEFINED.
C7_LeafSentinels ==
    \A n \in NodeIds(tree) :
        tree.nodes[n].is_leaf =>
            /\ tree.nodes[n].left_child = TREE_LEAF
            /\ tree.nodes[n].right_child = TREE_LEAF
            /\ tree.nodes[n].feature = TREE_UNDEFINED

\* C7 amended: in every arena reachable by add_node_tree calls none of which
\* names a leaf as parent, every node with is_leaf = true has left_child =
\* right_child = TREE_LEAF and feature = TREE_UNDEFINED.
C7_LeafSentinelsNoLeafParent ==
    NoLeafParent => C7_LeafSentinels

\* C7 witness: two leaves under a split root
C7_Witness ==
    /\ NoLeafParent
    /\ tree.node_count >= 3
    /\ ~tree.nodes[0].is_leaf
    /\ \E a, b \in NodeIds(tree) :
          /\ a # b
          /\ tree.nodes[a].is_leaf /\ tree.nodes[a].parent = 0
          /\ tree.nodes[b].is_leaf /\ tree.nodes[b].parent = 0

\* C8 as stated: in every arena reachable by add_node_tree calls, every node
\* with is_leaf = false has left_child and right_child equal to indices of
\* nodes present in the arena.
C8_ChildrenPresent ==
    \A n \in NodeIds(tree) :
        ~tree.nodes[n].is_leaf =>
            \A l \in FieldValues(tree.nodes[n].left_child),
               r \in FieldValues(tree.nodes[n].right_child) :
                l \in NodeIds(tree) /\ r \in NodeIds(tree)

\* C8 amended: every child slot of a node with is_leaf = false for which a
\* child has been appended on that side holds the index of a node present in
\* the arena, appended after the node itself (n < child < node_count).
C8_GivenChildrenPresent ==
    \A n \in NodeIds(tree), is_left \in BOOLEAN :
        (~tree.nodes[n].is_leaf /\ SideGiven(n, is_left)) =>
            \A c \in FieldValues(Slot(tree, n, is_left)) :
                c \in NodeIds(tree) /\ n < c

\* C8 witness: a split node with a child appended on each side
C8_Witness ==
    \E n \in NodeIds(tree) :
        /\ ~tree.nodes[n].is_leaf
        /\ SideGiven(n, TRUE) /\ SideGiven(n, FALSE)
        /\ tree.nodes[n].left_child # tree.nodes[n].right_child

\* the add_node_tree call that a step makes
IsAppendStep == Len(calls') = Len(calls) + 1

\* the record r with its child slot on the given side replaced by v
WithSlot(r, is_left, v) ==
    IF is_left THEN [r EXCEPT !.left_child = v] ELSE [r EXCEPT !.right_child = v]

\* C21: an add_node_tree call returns the previous node_count, increases
\* node_count by one, sets node_id of the new record to that index and, also
\* when it grows the capacity, leaves every record appended before (apart from
\* the one child slot of the given parent) and every prediction entry alone.
C21_AppendsOneNode ==
    [][IsAppendStep =>
          LET call == calls'[Len(calls')]
              node_idx == tree.node_count
          IN /\ call.ret = node_idx
             /\ tree'.node_count = node_idx + 1
             /\ tree'.nodes[node_idx].node_id = node_idx
             /\ \A n \in NodeIds(tree) :
                   /\ y_pred'[n] = y_pred[n]
                   /\ IF n = call.parent
                      THEN tree'.nodes[n]
                           = WithSlot(tree.nodes[n], call.is_left, node_idx)
                      ELSE tree'.nodes[n] = tree.nodes[n]]_vars

\* C21 witness: the fourth node was appended under a node of a full arena of
\* three nodes with predictions, which doubled the capacity
C21_Witness ==
    /\ tree.node_count = 4
    /\ tree.capacity = 6
    /\ tree.nodes[3].parent # TREE_UNDEFINED
    /\ \A n \in 0 .. 2 : y_pred[n] # ZeroRow(tree_type)

\* the capacities 0, 3, 6, 12, 24, ...
Doubled(c) == c = 0 \/ \E k \in 0 .. c : c = 3 * Pow2(k)

\* C22: on a tree whose capacity only add_node_tree changes, the capacity
\* changes only when an append finds node_count >= capacity; the change is
\* from 0 to 3 or a doubling, so the capacity is one of 0, 3, 6, 12, 24, ...
C22_CapacityDoubles ==
    /\ []Doubled(tree.capacity)
    /\ [][tree'.capacity # tree.capacity =>
             /\ IsAppendStep
             /\ tree.node_count >= tree.capacity
             /\ tree'.capacity = (IF tree.capacity = 0 THEN 3
                                  ELSE 2 * tree.capacity)]_vars

\* C22 witness: the fourth append to a fresh tree, after the capacity went
\* from 0 to 3 and from 3 to 6
C22_Witness ==
    /\ tree.capacity = 2 * 3
    /\ Len(calls) = tree.capacity - 2
    /\ calls[1].is_leaf

\* the child slots of node j
Slots(t, j) == <<t.nodes[j].left_child, t.nodes[j].right_child>>

\* C25: after add_node_tree(parent, ..., is_left, ...) returns index i with
\* parent # TREE_UNDEFINED, nodes[i].parent = parent and the parent's slot on
\* the side is_left holds i while its other slot is unchanged; no child slot
\* of any other node is written, and none at all with parent TREE_UNDEFINED.
C25_ParentLink ==
    [][IsAppendStep =>
        LET c == calls'[Len(calls')]
            i == c.ret
        IN /\ i = tree.node_count
           /\ tree'.nodes[i].parent = c.parent
           /\ c.parent # TREE_UNDEFINED =>
                 /\ (IF c.is_left THEN tree'.nodes[c.parent].left_child
                     ELSE tree'.nodes[c.parent].right_child) = i
                 /\ (IF c.is_left THEN tree'.nodes[c.parent].right_child
                     ELSE tree'.nodes[c.parent].left_child)
                       = (IF c.is_left THEN tree.nodes[c.parent].right_child
                          ELSE tree.nodes[c.parent].left_child)
           /\ \A j \in NodeIds(tree) :
                 j # c.parent => Slots(tree', j) = Slots(tree, j)]_vars

\* C25 witness: a split node has been given its left and then its right
\* child, and a further node was appended without a parent
C25_Witness ==
    /\ Len(calls) = 4
    /\ ~calls[1].is_leaf
    /\ calls[2].parent = 0 /\ calls[2].is_left
    /\ calls[3].parent = 0 /\ ~calls[3].is_left
    /\ calls[4].parent = TREE_UNDEFINED
    /\ Slots(tree, 0) = <<1, 2>>
    /\ tree.nodes[2].parent = 0

\* C26: add_node_tree with is_leaf true stores left_child = right_child =
\* TREE_LEAF (-1) and feature = threshold = TREE_UNDEFINED (-2) whatever the
\* arguments feature, threshold and bin_threshold are, and bin_threshold holds
\* the sentinel as it fits 8 unsigned bits (254); with is_leaf false it stores
\* the three arguments unchanged.
C26_LeafSentinels ==
    /\ [](TREE_LEAF = -1 /\ TREE_UNDEFINED = -2)
    /\ [][IsAppendStep =>
           LET c == calls'[Len(calls')]
               node == tree'.nodes[c.ret]
           IN IF c.is_leaf
              THEN /\ node.left_child = -1 /\ node.right_child = -1
                   /\ node.feature = -2 /\ node.threshold = -2
                   /\ node.bin_threshold = 254
              ELSE /\ node.feature = c.feature
                   /\ node.threshold = c.threshold
                   /\ node.bin_threshold = c.bin_threshold]_vars

\* C26 witness: a split node and a leaf have been appended with the same
\* arguments, which are not the sentinels
C26_Witness ==
    \E i, j \in DOMAIN calls :
        /\ calls[i].is_leaf /\ ~calls[j].is_leaf
        /\ calls[i].feature = 1 /\ calls[j].feature = 1
        /\ calls[i].bin_threshold = 5 /\ calls[j].bin_threshold = 5
        /\ tree.nodes[calls[i].ret].bin_threshold # 5
        /\ tree.nodes[calls[j].ret].bin_threshold = 5

\* the child indices that appends have written into the slots of node p
ChildrenOf(t, p) ==
    {c \in {t.nodes[p].left_child, t.nodes[p].right_child} : c >= 0}

\* TRUE when following the parent links from node i ends at TREE_UNDEFINED
\* within n steps
RECURSIVE ParentsEnd(_, _, _)
ParentsEnd(t, i, n) ==
    IF i = TREE_UNDEFINED THEN TRUE
    ELSE IF n = 0 \/ i \notin NodeIds(t) THEN FALSE
    ELSE ParentsEnd(t, t.nodes[i].parent, n - 1)

\* the nodes reached from the set S by at most n child links
RECURSIVE Below(_, _, _)
Below(t, S, n) ==
    IF n = 0 THEN S
    ELSE Below(t, S \cup UNION {ChildrenOf(t, p) : p \in S \cap NodeIds(t)}, n - 1)

\* C29: in every arena grown by add_node_tree calls whose parent is
\* TREE_UNDEFINED or an appended node, every stored parent is TREE_UNDEFINED
\* or smaller than the node's own index and every child index written into a
\* slot is greater than the index of the node that holds the slot, so
\* neither the parent links nor the child links contain a cycle.
C29_LinksAcyclic ==
    \A i \in NodeIds(tree) :
        /\ tree.nodes[i].parent = TREE_UNDEFINED \/ tree.nodes[i].parent < i
        /\ \A c \in ChildrenOf(tree, i) : c > i
        /\ ParentsEnd(tree, i, tree.node_count)
        /\ i \notin Below(tree, ChildrenOf(tree, i), tree.node_count)

\* C29 witness: a full arena with a chain of three nodes from the root, one
\* of them holding two children
C29_Witness ==
    /\ tree.node_count = MaxNodes
    /\ \E i \in NodeIds(tree) :
          /\ tree.nodes[i].parent > 0
          /\ tree.nodes[tree.nodes[i].parent].parent = 0
    /\ \E p \in NodeIds(tree) : Cardinality(ChildrenOf(tree, p)) = 2

---------------------------------------------------------------------------
(* Claims about find_leaf *)

\* the node invariants of a finished tree: node 0 is the root, every split
\* node has two distinct children present in the arena whose parent it is,
\* leaves are terminal, and every other node hangs under its parent
WellFormed(t) ==
    /\ t.node_count > 0
    /\ \A n \in NodeIds(t) :
          LET node == t.nodes[n] IN
          /\ (node.parent = TREE_UNDEFINED) <=> (n = 0)
          /\ node.is_leaf =>
                node.left_child = TREE_LEAF /\ node.right_child = TREE_LEAF
          /\ ~node.is_leaf =>
                /\ node.left_child \in NodeIds(t)
                /\ node.right_child \in NodeIds(t)
                /\ node.left_child # node.right_child
                /\ t.nodes[node.left_child].parent = n
                /\ t.nodes[node.right_child].parent = n
          /\ n # 0 =>
                /\ node.parent \in NodeIds(t)
                /\ ~t.nodes[node.parent].is_leaf
                /\ n \in {t.nodes[node.parent].left_child,
                          t.nodes[node.parent].right_child}

\* C9: on an arena satisfying the node invariants, a find_leaf call that has
\* started ends, for every features vector, and the index it returns is the
\* one of a node with is_leaf = true.
C9_FindLeafTerminates ==
    /\ [](WellFormed(tree) /\ f_pc = "loop" => <>(f_pc = "done"))
    /\ [](WellFormed(tree) /\ f_pc = "done" => tree.nodes[idx_leaf].is_leaf)
    /\ [](WellFormed(tree) => f_pc # "fault")

\* C9 witness: find_leaf has returned a leaf two levels under the root
C9_Witness ==
    /\ WellFormed(tree)
    /\ f_pc = "done"
    /\ tree.nodes[idx_leaf].is_leaf
    /\ tree.nodes[idx_leaf].depth = 2

\* the three-node tree is in the arena
ThreeNodeTree ==
    /\ tree.node_count = 3
    /\ ~tree.nodes[0].is_leaf
    /\ tree.nodes[0].feature = 0 /\ tree.nodes[0].bin_threshold = 5
    /\ tree.nodes[0].left_child = 1 /\ tree.nodes[0].right_child = 2
    /\ tree.nodes[1].is_leaf /\ tree.nodes[2].is_leaf

\* C10: find_leaf starts at node 0 and at each split node moves to left_child
\* when the bin code of the node's feature is <= bin_threshold and to
\* right_child otherwise; on the three-node tree it returns the left leaf for
\* the codes 0..5 and the right leaf for the codes 6..255.
C10_Routing ==
    /\ [][(f_pc = "idle" /\ f_pc' = "loop") => idx_leaf' = 0]_vars
    /\ [][(f_pc = "loop" /\ ~tree.nodes[idx_leaf].is_leaf) =>
             idx_leaf' = (IF f_xi[tree.nodes[idx_leaf].feature]
                                <= tree.nodes[idx_leaf].bin_threshold
                          THEN tree.nodes[idx_leaf].left_child
                          ELSE tree.nodes[idx_leaf].right_child)]_vars
    /\ [](tree.node_count = 3 => ThreeNodeTree)
    /\ []((ThreeNodeTree /\ f_pc = "done") =>
             idx_leaf = (IF f_xi[0] \in 0 .. 5 THEN 1 ELSE 2))

\* C10 witness: the walk for the bin code 5 has ended in the left leaf
C10_Witness ==
    /\ ThreeNodeTree
    /\ f_pc = "done"
    /\ f_xi[0] = 5
    /\ idx_leaf = 1

---------------------------------------------------------------------------
(* Claims about the predictions *)

\* the ancestors of node n in the arena, the parent first and the root last
RECURSIVE Ancestors(_)
Ancestors(n) ==
    IF tree.nodes[n].parent = TREE_UNDEFINED THEN <<>>
    ELSE <<tree.nodes[n].parent>> \o Ancestors(tree.nodes[n].parent)

\* alpha_a = 0.5 * exp(-step * loss_valid(a) - log_weight_tree(a)), from the
\* ancestor's own fields
AlphaOf(a) ==
    Mul(<<1, 2>>,
        exp(Sub(Neg(Mul(step, loss_valid[a])), log_weight_tree[a])))

\* the value of P after the first j ancestors in `as`, P starting from `leaf`
\* and val(a) being what ancestor a contributes
RECURSIVE Mixed(_, _, _, _)
Mixed(val, leaf, as, j) ==
    IF j = 0 THEN val[leaf]
    ELSE LET P == Mixed(val, leaf, as, j - 1)
             a == as[j]
         IN [c \in DOMAIN P |->
                Add(Mul(AlphaOf(a), val[a][c]),
                    Mul(Sub(Float(1), AlphaOf(a)), P[c]))]

\* the depth of every node, as a row of one float
DepthRows == [n \in NodeIds(tree) |-> [c \in {0} |-> Float(tree.nodes[n].depth)]]

\* a prediction function (not the weighted depth) has finished a row
PredictionDone ==
    /\ p_pc = "done"
    /\ p_fn \in {"tree_classifier_predict_proba", "tree_regressor_predict"}

\* C11: with aggregation == false, tree_regressor_predict and
\* tree_classifier_predict_proba return for every row y_pred[find_leaf(row)],
\* whatever the values of step, loss_valid and log_weight_tree.
C11_RawPrediction ==
    (PredictionDone /\ ~aggregation) => pred_i = y_pred[find_leaf(tree.nodes, p_xi)]

\* C11 witness: a raw prediction from a leaf of depth 2 whose two ancestors
\* have different weights, one of them NaN
C11_Witness ==
    /\ PredictionDone /\ ~aggregation
    /\ tree.nodes[idx_current].depth = 2
    /\ log_weight_tree[0] = NaN
    /\ log_weight_tree[tree.nodes[idx_current].parent] # NaN
    /\ y_pred[0] # y_pred[idx_current]

\* C12: with aggregation == true, both functions return the value obtained
\* from P = y_pred[leaf] by P <- alpha_a * y_pred[a] + (1 - alpha_a) * P at
\* every ancestor a, from the leaf's parent up to and including the root.
C12_AggregatedPrediction ==
    (PredictionDone /\ aggregation) =>
        LET leaf == find_leaf(tree.nodes, p_xi)
            as == Ancestors(leaf)
        IN /\ visited = <<leaf>> \o as
           /\ pred_i = Mixed(y_pred, leaf, as, Len(as))

\* C12 witness: an aggregated prediction over two ancestors with different
\* predictions and different weights, none NaN
C12_Witness ==
    /\ PredictionDone /\ aggregation
    /\ Len(visited) = 3
    /\ y_pred[visited[2]] # y_pred[visited[3]]
    /\ AlphaOf(visited[2]) # AlphaOf(visited[3])
    /\ ~IsNaN(AlphaOf(visited[2])) /\ ~IsNaN(AlphaOf(visited[3]))
    /\ pred_i # y_pred[visited[1]]

\* node 0 is the only node with parent TREE_UNDEFINED and every other node's
\* parent is an earlier node
RootedArena ==
    /\ tree.node_count > 0
    /\ tree.nodes[0].parent = TREE_UNDEFINED
    /\ \A n \in NodeIds(tree) : n # 0 => tree.nodes[n].parent \in 0 .. (n - 1)

\* C13: on an arena built by add_node_tree in which node 0 is the only root
\* and every other node's parent is an earlier node, the ancestor loop of the
\* aggregated prediction and of the weighted depth, started at any leaf,
\* eventually stops at node 0 after visiting each ancestor exactly once, and
\* never uses the root's parent value as an index.
C13_AncestorLoopStops ==
    /\ []((RootedArena /\ p_pc = "loop") => <>(p_pc = "done"))
    /\ []((RootedArena /\ p_pc = "done") =>
             /\ idx_current = 0
             /\ visited = <<visited[1]>> \o Ancestors(visited[1])
             /\ \A i, j \in 1 .. Len(visited) : visited[i] = visited[j] => i = j)
    /\ [](RootedArena =>
             /\ p_pc # "fault"
             /\ \A i \in 1 .. Len(visited) : visited[i] \in NodeIds(tree))

\* C13 witness: the weighted-depth walk from a leaf of depth 2 has stopped at
\* node 0 in an arena in which another node's parent is a leaf
C13_Witness ==
    /\ RootedArena
    /\ p_pc = "done"
    /\ p_fn = "tree_regressor_weighted_depth"
    /\ Len(visited) = 3
    /\ idx_current = 0
    /\ \E n \in NodeIds(tree) : n # 0 /\ tree.nodes[tree.nodes[n].parent].is_leaf

\* C14: tree_regressor_weighted_depth starts from depth(leaf) and at each
\* ancestor a, the leaf's parent first and the root last, sets
\* W <- alpha_a * depth(a) + (1 - alpha_a) * W with the alpha_a of the
\* aggregated prediction; on a tree whose root is a leaf it returns the root's
\* depth.
C14_WeightedDepth ==
    (p_pc = "done" /\ p_fn = "tree_regressor_weighted_depth") =>
        LET leaf == find_leaf(tree.nodes, p_xi)
            as == Ancestors(leaf)
        IN /\ visited = <<leaf>> \o as
           /\ pred_i = Mixed(DepthRows, leaf, as, Len(as))
           /\ tree.nodes[0].is_leaf => pred_i = DepthRows[0]

\* C14 witness: a weighted depth strictly between 0 and 2, mixed over two
\* ancestors with different weights
C14_Witness ==
    /\ p_pc = "done" /\ p_fn = "tree_regressor_weighted_depth"
    /\ Len(visited) = 3
    /\ AlphaOf(visited[2]) # AlphaOf(visited[3])
    /\ ~IsNaN(pred_i[0])
    /\ pred_i[0] # Float(0) /\ pred_i[0] # Float(2)

---------------------------------------------------------------------------
(* Claims about the impurities *)

\* an evaluation made with both children non-empty
NonEmpty(e) == e.weighted_n_left > 0 /\ e.weighted_n_right > 0

\* how x compares with y
Order(x, y) == IF Less(x, y) THEN "lt" ELSE IF Less(y, x) THEN "gt" ELSE "eq"

\* the proxy improvements and the improvements evaluated in the arithmetic r
\* order every two positions with non-empty children alike
SameRanking(r) ==
    \A p, q \in DOMAIN evals :
        (NonEmpty(evals[p]) /\ NonEmpty(evals[q]))
        => Order(evals[p].proxy[r], evals[q].proxy[r])
           = Order(evals[p].improvement[r], evals[q].improvement[r])

\* C15 (as stated): for one initialised node and two cursor positions with
\* non-empty children, the value of criterion_proxy_impurity_improvement at the
\* one is less than, equal to or greater than its value at the other exactly
\* when the value of criterion_impurity_improvement is
C15_ProxyRanksAsImprovement == SameRanking("float")

\* C15 (amended): computed without rounding, the proxy improvement orders two
\* positions with non-empty children exactly as the improvement does
C15_ProxyRanksAsImprovementUnrounded == SameRanking("real")

C15_Witness ==
    \E p, q \in DOMAIN evals :
        /\ NonEmpty(evals[p]) /\ NonEmpty(evals[q])
        /\ Less(evals[p].proxy["real"], evals[q].proxy["real"])
        /\ Less(evals[p].improvement["real"], evals[q].improvement["real"])

\* one output, two classes, four unit-weight samples of labels [0, 0, 1, 1],
\* init(start = 0, end = 4)
HalfAndHalf ==
    /\ initialised
    /\ Size(criterion.sum_total) = 1
    /\ criterion.start = 0
    /\ criterion.end = Len(TwoAndTwo)
    /\ \A p \in 0 .. (Len(TwoAndTwo) - 1) :
          /\ criterion.y[criterion.samples[p]][0] = TwoAndTwo[p + 1]
          /\ Size(criterion.sample_weight) > 0
                => criterion.sample_weight[criterion.samples[p]] = 1

\* every output of the side has samples of one class only
SingleClass(sum) ==
    \A k \in DOMAIN sum :
        \E c \in DOMAIN sum[k] :
            /\ sum[k][c] > 0
            /\ \A c2 \in DOMAIN sum[k] \ {c} : sum[k][c2] = 0

C19_NeverRaise ==
    \A p \in DOMAIN evals :
        /\ ~Raised(evals[p].children["float"][1])
        /\ ~Raised(evals[p].children["float"][2])
        /\ ~Raised(evals[p].proxy["float"])
        /\ ~Raised(evals[p].improvement["float"])

---------------------------------------------------------------------------
(* Claims about the batch calls *)

\* what a call of p_fn with the arguments aggregation and step gives for the
\* features vector xi alone
RowOutput(xi) ==
    LET leaf == find_leaf(tree.nodes, xi)
        as == Ancestors(leaf)
    IN IF p_fn = "tree_apply" THEN Scalar(Float(leaf))
       ELSE IF p_fn = "tree_regressor_weighted_depth"
       THEN Mixed(DepthRows, leaf, as, Len(as))
       ELSE IF aggregation THEN Mixed(y_pred, leaf, as, Len(as))
       ELSE y_pred[leaf]

\* C23: tree_apply (with find_leaf) and the three prediction functions leave
\* nodes, y_pred, node_count and capacity unchanged, and the entry of out
\* for row i depends only on row i of X (and on aggregation and step), not on
\* the other rows or on the order of the rows.
C23_ReadOnlyPerRow ==
    /\ [][tree' = tree /\ y_pred' = y_pred]_vars
    /\ [](\A i \in 0 .. (p_i - 1) : out[i] = RowOutput(X[i + 1]))

\* C23 witness: an aggregated batch call has returned for two rows that fall
\* in different leaves and get different outputs
C23_Witness ==
    /\ p_pc = "returned"
    /\ aggregation
    /\ p_fn # "tree_regressor_weighted_depth"
    /\ X[1] # X[2]
    /\ out[0] # out[1]
    /\ find_leaf(tree.nodes, X[1]) # 0

---------------------------------------------------------------------------
(* Claims about the scan of a node *)

Smaller(a, b) == IF a <= b THEN a ELSE b

\* C27: for pos <= new_pos <= end, criterion_update(new_pos) takes the
\* forward branch exactly when new_pos - pos <= end - new_pos and visits at
\* most min(new_pos - pos, end - new_pos) samples; over the non-decreasing
\* updates that follow a reset the samples visited are at most end - start.
\* (The samples visited are those whose weight the branch adds to, or takes
\* from, the left weight.)
C27_UpdateWork ==
    /\ [][IsUpdateStep =>
           LET new_pos == last_op'[2]
               n == Len(visited') - Len(visited)
               unit == IF criterion.sample_weight = <<>> THEN 1
                       ELSE criterion.sample_weight[0]
           IN /\ (last_op'[3] = "forward")
                    <=> (new_pos - criterion.pos <= criterion.end - new_pos)
              /\ n <= Smaller(new_pos - criterion.pos, criterion.end - new_pos)
              /\ last_op'[3] = "forward" =>
                    criterion'.weighted_n_left
                        = criterion.weighted_n_left + n * unit
              /\ last_op'[3] = "reverse" =>
                    criterion'.weighted_n_left
                        = criterion.weighted_n_node_samples - n * unit]_vars
    /\ [](initialised => Len(visited) <= criterion.end - criterion.start)

\* C27 witness: after a reset, a forward update and then a reverse update
\* that both visit samples
C27_Witness ==
    /\ initialised
    /\ last_op[1] = "update" /\ last_op[3] = "reverse"
    /\ Len(visited) >= 2
    /\ visited[1] = criterion.start
    /\ visited[Len(visited)] = criterion.pos

\* the fields classification_criterion_init leaves
InitState(cr) ==
    <<cr.start, cr.end, cr.pos, cr.n_node_samples, cr.sum_total, cr.sum_left,
      cr.sum_right, cr.weighted_n_node_samples, cr.weighted_n_left,
      cr.weighted_n_right>>

\* ClassificationCriterion(...): a criterion that has not been used, whose
\* sums hold g
Unused(g) ==
    [FreshBuild.criterion EXCEPT !.sum_total = Filled(g),
                                 !.sum_left = Filled(g),
                                 !.sum_right = Filled(g)]

\* C28: the state left by classification_criterion_init (start, end, pos,
\* n_node_samples, sum_total, sum_left, sum_right, weighted_n_node_samples,
\* weighted_n_left, weighted_n_right) depends only on its arguments:
\* initialising a criterion used on another node, at any cursor position,
\* gives the state that initialising a freshly constructed one gives.
C28_InitFromArguments ==
    [][last_op'[1] = "init" =>
        LET a == last_op'[2] IN
        \A g \in 0 .. 1 :
            InitState(criterion')
                = InitState(classification_criterion_init(Unused(g), criterion'.y,
                      a.sample_weight, RankedWeight(a.sample_weight, 0),
                      a.samples, a.start, a.end))]_vars

\* C28 witness: the criterion has been initialised again on a non-empty
\* node after its cursor had moved on another node
C28_Witness ==
    /\ last_op[1] = "init"
    /\ last_op[3] = "moved"
    /\ criterion.end > criterion.start
    /\ criterion.start > 0

---------------------------------------------------------------------------
(* Claims about two builds *)

\* the objects of a build that makes the first n calls of log alone
RECURSIVE Alone(_, _)
Alone(log, n) ==
    IF n = 0 THEN FreshBuild ELSE AfterCall(Alone(log, n - 1), log[n])

---------------------------------------------------------------------------
(* Claims about the fields of the leaves *)

\* C30: the aggregated prediction and the weighted depth of a sample do not
\* depend on the loss_valid or the log_weight_tree of the leaves: two arenas
\* that differ only in those fields of leaves give the same output for every
\* input and step; and on a tree whose root is a leaf the aggregated
\* prediction is the non-aggregated one, y_pred of the leaf.
C30_LeafFieldsUnread ==
    /\ out_before # <<>> => \A i \in 0 .. (p_i - 1) : out[i] = out_before[i]
    /\ (/\ tree.nodes[0].is_leaf
        /\ p_fn \in {"tree_classifier_predict_proba", "tree_regressor_predict"})
         => \A i \in 0 .. (p_i - 1) :
               out[i] = y_pred[find_leaf(tree.nodes, X[i + 1])]

\* C30 witness: the second of two aggregated calls has returned; the leaf of
\* the first row is at depth 2, its two fields have changed between the calls
\* and the output for the row is not the leaf's own value
C30_Witness ==
    /\ p_pc = "returned"
    /\ out_before # <<>>
    /\ aggregation
    /\ LET leaf == find_leaf(tree.nodes, X[1]) IN
          /\ tree.nodes[leaf].depth = 2
          /\ loss_valid[leaf] = Float(3)
          /\ log_weight_tree[leaf] = Float(2)
          /\ out[0] # NodeValue(p_fn, leaf)

====
